---- MODULE Spec2Model ----
(***************************************************************************)
(* A model of the slot engine of slotstudio (src/lib/engine/SlotEngine.ts) *)
(* with its bonuses and the store's doSpin.                                *)
(*                                                                         *)
(* JavaScript runs one job at a time: a spin() runs without interruption   *)
(* from its call to its first await, and from one await to the next.  One  *)
(* action of the model is one such uninterrupted run.                      *)
(***************************************************************************)
EXTENDS Integers, Sequences, FiniteSets, TLC

NULL == "null"

(***************************************************************************)
(* 32-bit integers.  The generator's state x is a signed 32-bit integer,   *)
(* -2^31..2^31-1.  For the shifts and exclusive-ors of seededRng it is     *)
(* split into its unsigned 16-bit halves, so that no intermediate value    *)
(* leaves the 32-bit range.                                                *)
(***************************************************************************)
Hi16(x) == (x \div 65536) % 65536
Lo16(x) == x % 65536

\* the signed 32-bit integer with the given unsigned halves (ToInt32)
Int32(hi, lo) == (IF hi >= 32768 THEN hi - 65536 ELSE hi) * 65536 + lo

RECURSIVE XorN(_, _, _)
XorN(a, b, n) ==
    IF n = 0 THEN 0
    ELSE ((a + b) % 2) + 2 * XorN(a \div 2, b \div 2, n - 1)

\* exclusive-or of two 4-bit numbers, tabulated
XorTab == [a \in 0..15 |-> [b \in 0..15 |-> XorN(a, b, 4)]]

Xor16(a, b) ==
      XorTab[a \div 4096][b \div 4096] * 4096
    + XorTab[(a \div 256) % 16][(b \div 256) % 16] * 256
    + XorTab[(a \div 16) % 16][(b \div 16) % 16] * 16
    + XorTab[a % 16][b % 16]

\* x ^ y on 32-bit integers
Xor32(x, y) == Int32(Xor16(Hi16(x), Hi16(y)), Xor16(Lo16(x), Lo16(y)))

\* x << k, 0 < k < 16: the bits shifted past bit 31 are lost
Shl(x, k) ==
    LET p == 2 ^ k
        q == 2 ^ (16 - k)
    IN  Int32((Hi16(x) % q) * p + (Lo16(x) \div q), (Lo16(x) % q) * p)

\* x >> k, 16 <= k < 32: sign-propagating
Sar(x, k) ==
    LET neg == x < 0
        h   == Hi16(x) \div (2 ^ (k - 16))
        fill == IF neg THEN 65536 - 2 ^ (32 - k) ELSE 0
    IN  Int32(IF neg THEN 65535 ELSE 0, h + fill)

\* x ^= x << 13, x ^= x >> 17, x ^= x << 5
XorShl5(x) == Xor32(x, Shl(x, 5))

XorSar17(x) == Xor32(x, Sar(x, 17))

XorShl13(x) == Xor32(x, Shl(x, 13))

XorShiftStep(x) == XorShl5(XorSar17(XorShl13(x)))

FallbackSeed == 123456789

\* a variant of seededRng without the fallback
seededRngNoFallback(seed) == seed

\* let x = seed || 123456789: the generator's first state.  seed is the
\* ToInt32 value of the configured seed.
seededRng(seed) == IF seed = 0 THEN FallbackSeed ELSE seed

\* The seeds the specifications construct engines with.
AllSeeds == {0, 1, 3, 2024, 123456789}

\* XorShiftStep tabulated once for the first TableChunk^2 states of the
\* generators started from AllSeeds; XorShift is XorShiftStep for every x,
\* looked up where the table has it.
TableChunk == 20

\* the n states x, step(x), step(step(x)), ...
RECURSIVE Walk(_, _)
Walk(x, n) == IF n = 0 THEN <<>> ELSE <<x>> \o Walk(XorShiftStep(x), n - 1)

\* m walks of TableChunk states, one after the other
RECURSIVE Walks(_, _)
Walks(x, m) ==
    IF m = 0 THEN <<>>
    ELSE LET w == Walk(x, TableChunk)
         IN  w \o Walks(XorShiftStep(w[TableChunk]), m - 1)

Orbit(x) == LET w == Walks(x, TableChunk) IN {w[i] : i \in DOMAIN w}

StepTable ==
    [x \in UNION {Orbit(seededRng(seed)) : seed \in AllSeeds} |-> XorShiftStep(x)]

XorShift(x) == IF x \in DOMAIN StepTable THEN StepTable[x] ELSE XorShiftStep(x)

(***************************************************************************)
(* Weight tables.  A table is the sequence of the object's entries         *)
(* <<symbol, weight>> in Object.entries order (insertion order).           *)
(***************************************************************************)
DEFAULT_WEIGHTS ==
    << <<"sym_bear", 5>>, <<"sym_wolf", 5>>, <<"sym_buffalo", 3>>,
       <<"sym_elk", 5>>, <<"sym_card_9", 10>>, <<"sym_card_10", 10>>,
       <<"sym_card_a", 8>>, <<"sym_card_j", 9>>, <<"sym_card_k", 8>>,
       <<"sym_card_q", 9>>, <<"sym_scatter_free_spins", 1>>,
       <<"sym_wild", 2>> >>

RECURSIVE SumWeights(_, _)
SumWeights(entries, i) ==
    IF i > Len(entries) THEN 0 ELSE entries[i][2] + SumWeights(entries, i + 1)

\* entries.reduce((a, [, w]) => a + w, 0)
TotalWeight(entries) == SumWeights(entries, 1)

\* (t -= w) <= 0 after the weights up to cum have been subtracted from
\* t = ((x >>> 0) / 4294967296) * total.  For integer weights of small sum
\* every value here is an exact double, so the test is the exact comparison
\* (x >>> 0) * total - cum * 2^32 <= 0, computed on the halves of x:
\* 65536 * (hi * total - cum * 65536) + lo * total <= 0.
\* a variant of RemainderLeqZero that tests (t -= w) < 0
RemainderLtZero(x, total, cum) ==
    (Hi16(x) * total - cum * 65536) < ((0 - Lo16(x) * total) \div 65536)

RemainderLeqZero(x, total, cum) ==
    (Hi16(x) * total - cum * 65536) <= ((0 - Lo16(x) * total) \div 65536)

RECURSIVE PickLoop(_, _, _, _, _)
PickLoop(entries, i, x, total, cum) ==
    IF i > Len(entries) THEN entries[Len(entries)][1]
    ELSE IF RemainderLeqZero(x, total, cum + entries[i][2]) THEN entries[i][1]
    ELSE PickLoop(entries, i + 1, x, total, cum + entries[i][2])

\* pickRandomSymbol, given the generator's state x after the step of this
\* draw
pickRandomSymbol(entries, x) == PickLoop(entries, 1, x, TotalWeight(entries), 0)

(***************************************************************************)
(* The grid: grid[c][r], column-major, indices from 0.                     *)
(***************************************************************************)
makeEmptyGrid(size) ==
    [c \in 0..(size.cols - 1) |-> [r \in 0..(size.rows - 1) |-> NULL]]

\* The two fill loops: for c, for r (c outer).  st = [grid, rng, drawn];
\* onlyNull is fillTop's test, FALSE for fillAllRandom.
\* this.grid[c][r].sym = this.pickRandomSymbol(), x the generator's new state
FillCell(st, entries, c, r, x) ==
    [grid  |-> [st.grid EXCEPT ![c][r] = pickRandomSymbol(entries, x)],
     rng   |-> x,
     drawn |-> st.drawn + 1]

RECURSIVE FillFrom(_, _, _, _, _, _, _)
FillFrom(st, entries, c, r, cols, rows, onlyNull) ==
    IF c >= cols THEN st
    ELSE IF r >= rows THEN FillFrom(st, entries, c + 1, 0, cols, rows, onlyNull)
    ELSE IF onlyNull /\ st.grid[c][r] # NULL
         THEN FillFrom(st, entries, c, r + 1, cols, rows, onlyNull)
    ELSE FillFrom(FillCell(st, entries, c, r, XorShift(st.rng)),
                  entries, c, r + 1, cols, rows, onlyNull)

fillAllRandom(grid, rng, entries, size) ==
    FillFrom([grid |-> grid, rng |-> rng, drawn |-> 0], entries, 0, 0,
             size.cols, size.rows, FALSE)

\* a variant of fillTop that looks at the top row only
fillTopFirstRow(grid, rng, entries, size) ==
    FillFrom([grid |-> grid, rng |-> rng, drawn |-> 0], entries, 0, 0,
             size.cols, 1, TRUE)

fillTop(grid, rng, entries, size) ==
    FillFrom([grid |-> grid, rng |-> rng, drawn |-> 0], entries, 0, 0,
             size.cols, size.rows, TRUE)

(***************************************************************************)
(* evaluateWins                                                            *)
(***************************************************************************)
NoStreak == [sym |-> NULL, cells |-> <<>>]

MkWin(cells) == [cells |-> cells, payout |-> Len(cells) * 10]

\* a variant of PushStreak that asks for more than three cells
PushStreakLonger(wins, streak) ==
    IF streak # NoStreak /\ Len(streak.cells) > 3
    THEN Append(wins, MkWin(streak.cells))
    ELSE wins

\* if (streak && streak.cells.length >= 3) wins.push(...)
PushStreak(wins, streak) ==
    IF streak # NoStreak /\ Len(streak.cells) >= 3
    THEN Append(wins, MkWin(streak.cells))
    ELSE wins

RECURSIVE ScanRow(_, _, _, _, _, _)
ScanRow(grid, r, c, cols, streak, wins) ==
    IF c >= cols THEN PushStreak(wins, streak)
    ELSE LET sym == grid[c][r]
         IN  IF sym = NULL
             THEN ScanRow(grid, r, c + 1, cols, streak, wins)
             ELSE IF streak = NoStreak \/ streak.sym # sym
             THEN ScanRow(grid, r, c + 1, cols,
                          [sym |-> sym, cells |-> << [c |-> c, r |-> r] >>],
                          PushStreak(wins, streak))
             ELSE ScanRow(grid, r, c + 1, cols,
                          [streak EXCEPT !.cells = Append(@, [c |-> c, r |-> r])],
                          wins)

RECURSIVE ScanRows(_, _, _, _)
ScanRows(grid, r, size, wins) ==
    IF r >= size.rows THEN wins
    ELSE ScanRows(grid, r + 1, size,
                  ScanRow(grid, r, 0, size.cols, NoStreak, wins))

evaluateWins(grid, size) == ScanRows(grid, 0, size, <<>>)

(***************************************************************************)
(* deleteWins, applyGravity                                                *)
(***************************************************************************)
RECURSIVE DeleteCells(_, _, _)
DeleteCells(grid, cells, j) ==
    IF j > Len(cells) THEN grid
    ELSE DeleteCells([grid EXCEPT ![cells[j].c][cells[j].r] = NULL], cells, j + 1)

RECURSIVE DeleteFrom(_, _, _)
DeleteFrom(grid, wins, i) ==
    IF i > Len(wins) THEN grid
    ELSE DeleteFrom(DeleteCells(grid, wins[i].cells, 1), wins, i + 1)

deleteWins(grid, wins) == DeleteFrom(grid, wins, 1)

\* a variant of GravityCol that does not clear the cell it moved from
RECURSIVE GravityColNoClear(_, _, _)
GravityColNoClear(col, r, write) ==
    IF r < 0 THEN col
    ELSE IF col[r] # NULL
         THEN IF write # r
              THEN GravityColNoClear([col EXCEPT ![write] = col[r]],
                                     r - 1, write - 1)
              ELSE GravityColNoClear(col, r - 1, write - 1)
    ELSE GravityColNoClear(col, r - 1, write)

\* one column: for (r = rows - 1; r >= 0; r--) with the write index
RECURSIVE GravityCol(_, _, _)
GravityCol(col, r, write) ==
    IF r < 0 THEN col
    ELSE IF col[r] # NULL
         THEN IF write # r
              THEN GravityCol([col EXCEPT ![write] = col[r], ![r] = NULL],
                              r - 1, write - 1)
              ELSE GravityCol(col, r - 1, write - 1)
    ELSE GravityCol(col, r - 1, write)

RECURSIVE GravityFrom(_, _, _)
GravityFrom(grid, c, size) ==
    IF c >= size.cols THEN grid
    ELSE GravityFrom([grid EXCEPT ![c] = GravityCol(grid[c], size.rows - 1,
                                                    size.rows - 1)],
                     c + 1, size)

applyGravity(grid, size) == GravityFrom(grid, 0, size)

\* getSnapshot: this.grid.map(col => col.map(cell => cell.sym))
getSnapshot(grid) == [c \in DOMAIN grid |-> [r \in DOMAIN grid[c] |-> grid[c][r]]]

(***************************************************************************)
(* The state.                                                              *)
(***************************************************************************)
VARIABLES
    eng,     \* the SlotEngine objects: engine id -> its fields
    heap,    \* the weight-table objects; config.symbolWeights is an index
    bonus,   \* the bonus objects: their kind and private fields
    calls,   \* the spin() invocations made so far, in call order
    nset,    \* number of setter calls made so far (bounded)
    last,    \* what the last step did: the operation, its RNG draws, its result
    store    \* the slotStore module: isSpinning, gridSnapshot, its doSpin() calls

vars == <<eng, heap, bonus, calls, nset, last, store>>

\* the store of a program that drives its engines itself
NoStore == [isSpinning |-> FALSE, gridSnapshot |-> <<>>, pending |-> <<>>]

Size(cols, rows) == [cols |-> cols, rows |-> rows]

\* the weight table an engine draws from
Weights(en, h) == h[en.config.symbolWeights]

\* What a step reports in `last`: the operation and the one before it, the
\* engine, the number of RNG draws the step made, the Win list and cascade
\* count it returned, the grid it started from (for the grid methods called
\* directly), the spin() call it ran (0 when it ran none) and the weights
\* it was given (setWeights) or <<x, symbol>>, the draw and the symbol it
\* returned (pickRandomSymbol), or the matrix object it returned or wrote
\* (getSnapshot, and a write into a snapshot).
Did(op, e, drawn, wins, cascades, pre) ==
    [op |-> op, prev |-> last.op, e |-> e, drawn |-> drawn, wins |-> wins,
     cascades |-> cascades, pre |-> pre, call |-> 0, arg |-> <<>>]

NoStep ==
    [op |-> "new", prev |-> "new", e |-> 1, drawn |-> 0, wins |-> <<>>,
     cascades |-> 0, pre |-> <<>>, call |-> 0, arg |-> <<>>]

(***************************************************************************)
(* constructor(cfg).  cfg.symbolWeights is the index of the table object   *)
(* the caller passes, 1 (DEFAULT_WEIGHTS) when it passes none; cfg.rngSeed *)
(* is <<seed>>, or <<>> when the caller passes none, and then `random` is  *)
(* the value of Math.floor(Math.random() * 1e9).                           *)
(***************************************************************************)
\* a variant of ConfigSeed that never looks at cfg.rngSeed
ConfigSeedRandom(cfg, random) == random

ConfigSeed(cfg, random) == IF cfg.rngSeed = <<>> THEN random ELSE cfg.rngSeed[1]

\* the engine once its grid has been filled, f the filled grid
Constructed(cfg, random, f) ==
        [config |-> [grid          |-> cfg.grid,
                     spinStyle     |-> cfg.spinStyle,
                     spinSpeed     |-> 18,
                     fallSpeed     |-> 28,
                     symbolWeights |-> cfg.symbolWeights,
                     rngSeed       |-> ConfigSeed(cfg, random)],
         rng             |-> f.rng,
         grid            |-> f.grid,
         spinning        |-> FALSE,
         cascadesInChain |-> 0,
         bonuses         |-> <<>>]

constructor(cfg, random, h) ==
    Constructed(cfg, random,
                fillAllRandom(makeEmptyGrid(cfg.grid),
                              seededRng(ConfigSeed(cfg, random)),
                              h[cfg.symbolWeights], cfg.grid))

(***************************************************************************)
(* The bonuses.  A bonus object is [kind, freeSpins, multiplier]; an       *)
(* engine's bonuses field lists indices of bonus objects.                  *)
(***************************************************************************)
minScatters == 3

triggerSymbol == "sym_scatter_free_spins"

\* got is the Win list the bonus's onSpinEnd was last invoked with, as
\* <<wins>>, and <<>> while it has not been invoked
NewBonus(kind) == [kind |-> kind, freeSpins |-> 0, multiplier |-> 1, got |-> <<>>]

\* Whether bonus b's hook of this phase throws.  The hooks of the shipped
\* bonuses (kinds "FreeSpins" and "Multiplier") never do; "ThrowsAtStart"
\* and "ThrowsAtEnd" are bonuses of the Bonus interface whose onSpinStart,
\* or onSpinEnd, throws (or returns a promise that rejects).
Throws(b, phase) ==
    \/ b.kind = "ThrowsAtStart" /\ phase = "start"
    \/ b.kind = "ThrowsAtEnd" /\ phase = "end"

\* A hook is handed the engine itself (and onSpinEnd the Win list itself),
\* so its outcome is [b, en, wins, thrown]: the bonus, the engine and the
\* Win list as the hook leaves them, and whether it threw.
\* MultiplierBonus.onSpinStart: if (Math.random() < 0.25) this.multiplier++;
\* FreeSpinsBonus has no onSpinStart.  lucky is the outcome of the test.
onSpinStart(b, en, lucky) ==
    [b      |-> IF b.kind = "Multiplier" /\ lucky
                THEN [b EXCEPT !.multiplier = @ + 1]
                ELSE b,
     en     |-> en,
     wins   |-> <<>>,
     thrown |-> Throws(b, "start")]

Scatters(snapshot) ==
    Cardinality({cr \in UNION {{<<c, r>> : r \in DOMAIN snapshot[c]} : c \in DOMAIN snapshot} :
                    snapshot[cr[1]][cr[2]] = triggerSymbol})

\* FreeSpinsBonus.onSpinEnd counts the scatters of engine.getSnapshot();
\* MultiplierBonus.onSpinEnd only logs.
\* a variant of onSpinEnd in which FreeSpinsBonus also sets the engine's
\* spin style and empties the Win list it was handed
onSpinEndTampering(b, en, wins) ==
    [b      |-> IF Throws(b, "end") THEN b
                ELSE IF b.kind = "FreeSpins"
                        /\ Scatters(getSnapshot(en.grid)) >= minScatters
                THEN [b EXCEPT !.freeSpins = @ + 5, !.got = <<wins>>]
                ELSE [b EXCEPT !.got = <<wins>>],
     en     |-> IF b.kind = "FreeSpins"
                THEN [en EXCEPT !.config.spinStyle = "cascading"]
                ELSE en,
     wins   |-> IF b.kind = "FreeSpins" THEN <<>> ELSE wins,
     thrown |-> Throws(b, "end")]

\* a variant of onSpinEnd in which FreeSpinsBonus awards only for a spin
\* that won
onSpinEndOnWins(b, en, wins) ==
    [b      |-> IF Throws(b, "end") THEN b
                ELSE IF b.kind = "FreeSpins" /\ wins # <<>>
                        /\ Scatters(getSnapshot(en.grid)) >= minScatters
                THEN [b EXCEPT !.freeSpins = @ + 5, !.got = <<wins>>]
                ELSE [b EXCEPT !.got = <<wins>>],
     en     |-> en,
     wins   |-> wins,
     thrown |-> Throws(b, "end")]

onSpinEnd(b, en, wins) ==
    [b      |-> IF Throws(b, "end") THEN b
                ELSE IF b.kind = "FreeSpins"
                        /\ Scatters(getSnapshot(en.grid)) >= minScatters
                THEN [b EXCEPT !.freeSpins = @ + 5, !.got = <<wins>>]
                ELSE [b EXCEPT !.got = <<wins>>],
     en     |-> en,
     wins   |-> wins,
     thrown |-> Throws(b, "end")]

(***************************************************************************)
(* spin().  A call record is [e, accepted, pc, i, wins, ret, style,        *)
(* passes, at, used]: accepted tells whether the call passed the guard;    *)
(* pc = "start" or "end" while the call awaits hook i of that phase,       *)
(* "done" once its promise has resolved with ret[1], "thrown" once it has  *)
(* rejected because a hook threw, "hung" when its                          *)
(* cascade loop did not come to an end within CascadeCap passes; style is  *)
(* the spin style its body ran in ("" before the body), passes the number  *)
(* of loop iterations its body completed; at is what was in force when     *)
(* spin() was called and used is <<what was in force when the body         *)
(* began>> (<<>> before the body).                                         *)
(***************************************************************************)
CascadeCap == 12

\* if (this.spinning) return { wins: [], cascades: 0 };
NoopResult(en) == [wins |-> <<>>, cascades |-> 0]

\* the grid size, spin style and weight table an engine has, and the state
\* of its RNG
InForce(en, h) ==
    [grid |-> en.config.grid, spinStyle |-> en.config.spinStyle,
     weights |-> Weights(en, h), rng |-> en.rng]

\* One pass of the loop, f the refilled grid: cascadesInChain++;
\* wins = evaluateWins()
CascadePass(st, f, size) ==
    [grid     |-> f.grid,
     rng      |-> f.rng,
     drawn    |-> st.drawn + f.drawn,
     wins     |-> evaluateWins(f.grid, size),
     cascades |-> st.cascades + 1]

\* a variant of CascadeIteration that leaves the survivors where they are
CascadeIterationNoGravity(grid, rng, wins, entries, size) ==
    fillTop(deleteWins(grid, wins), rng, entries, size)

\* this.deleteWins(wins); this.applyGravity(); this.fillTop();
\* yields [grid, rng, drawn]
CascadeIteration(grid, rng, wins, entries, size) ==
    fillTop(applyGravity(deleteWins(grid, wins), size), rng, entries, size)

\* while (wins.length) { deleteWins; applyGravity; fillTop; cascadesInChain++;
\*                       wins = evaluateWins() }
\* st = [grid, rng, drawn, wins, cascades]
RECURSIVE CascadeLoop(_, _, _)
CascadeLoop(st, entries, size) ==
    IF st.wins = <<>> \/ st.cascades >= CascadeCap THEN st
    ELSE CascadeLoop(
            CascadePass(st,
                        CascadeIteration(st.grid, st.rng, st.wins, entries, size),
                        size),
            entries, size)

\* the state the loop starts in: the refilled grid f and its Wins
Evaluated(f, size) ==
    [grid |-> f.grid, rng |-> f.rng, drawn |-> f.drawn,
     wins |-> evaluateWins(f.grid, size), cascades |-> 0]

\* The end of the body, st the state after the loop (or after the first
\* evaluation, in regular style): this.spinning = false.  Yields the engine,
\* the Win list, the draws made, and whether the loop was cut off at
\* CascadeCap with Wins left.
Settled(en, st, cascading) ==
    [en    |-> [en EXCEPT !.grid = st.grid, !.rng = st.rng,
                          !.cascadesInChain = IF cascading THEN st.cascades ELSE @,
                          !.spinning = FALSE],
     wins  |-> st.wins,
     drawn |-> st.drawn,
     passes |-> st.cascades,
     hung  |-> st.wins # <<>> /\ cascading]

\* a variant of SpinBody without the cascade loop
SpinBodyNeverCascading(en, entries) ==
    Settled(en,
            Evaluated(fillAllRandom(en.grid, en.rng, entries, en.config.grid),
                      en.config.grid),
            FALSE)

\* a variant of SpinBody that runs the cascade loop in either style
SpinBodyAlwaysCascading(en, entries) ==
    Settled(en,
            CascadeLoop(Evaluated(fillAllRandom(en.grid, en.rng, entries,
                                                en.config.grid),
                                  en.config.grid),
                        entries, en.config.grid),
            TRUE)

\* Lines 93-109 of spin(): refill, evaluate, cascade, spinning = false.
SpinBody(en, entries) ==
    IF en.config.spinStyle = "cascading"
    THEN Settled(en,
                 CascadeLoop(Evaluated(fillAllRandom(en.grid, en.rng, entries,
                                                     en.config.grid),
                                       en.config.grid),
                             entries, en.config.grid),
                 TRUE)
    ELSE Settled(en,
                 Evaluated(fillAllRandom(en.grid, en.rng, entries, en.config.grid),
                           en.config.grid),
                 FALSE)

\* a variant of Hooked in which a hook's error is caught and the call goes on
HookedCatching(h, bn, b, c, pc, drawn) ==
    [en |-> h.en,
     bn |-> [bn EXCEPT ![b] = h.b],
     c  |-> [c EXCEPT !.pc = pc,
                      !.wins = IF pc = "end" THEN h.wins ELSE @],
     drawn |-> drawn]

\* Call c has invoked the hook of bonus object b in phase pc, with outcome
\* h: it awaits the hook, or, the hook having thrown, spin()'s promise
\* rejects (pc = "thrown") and the call runs no further.
Hooked(h, bn, b, c, pc, drawn) ==
    [en |-> h.en,
     bn |-> [bn EXCEPT ![b] = h.b],
     c  |-> [c EXCEPT !.pc = IF h.thrown THEN "thrown" ELSE pc,
                      !.wins = IF pc = "end" THEN h.wins ELSE @],
     drawn |-> drawn]

\* a variant of EndPhase that goes through the bonuses from the last to the
\* first
EndPhaseReversed(en, bn, c, drawn) ==
    IF c.i <= Len(en.bonuses)
    THEN Hooked(onSpinEnd(bn[en.bonuses[Len(en.bonuses) + 1 - c.i]], en, c.wins),
                bn, en.bonuses[Len(en.bonuses) + 1 - c.i], c, "end", drawn)
    ELSE [en |-> en,
          bn |-> bn,
          c  |-> [c EXCEPT !.pc = "done",
                           !.ret = << [wins |-> c.wins,
                                       cascades |-> en.cascadesInChain] >>],
          drawn |-> drawn]

\* a variant of EndPhase that returns the Wins of the grid as it is at the
\* return
EndPhaseReevaluating(en, bn, c, drawn) ==
    IF c.i <= Len(en.bonuses)
    THEN Hooked(onSpinEnd(bn[en.bonuses[c.i]], en, c.wins),
                bn, en.bonuses[c.i], c, "end", drawn)
    ELSE [en |-> en,
          bn |-> bn,
          c  |-> [c EXCEPT !.pc = "done",
                           !.ret = << [wins |-> evaluateWins(en.grid, en.config.grid),
                                       cascades |-> en.cascadesInChain] >>],
          drawn |-> drawn]

\* The spin-end loop from hook c.i on: invoke the hook and await it, or,
\* past the last bonus, return { wins, cascades: this.cascadesInChain }.
\* Yields [en, bn, c, drawn].
EndPhase(en, bn, c, drawn) ==
    IF c.i <= Len(en.bonuses)
    THEN Hooked(onSpinEnd(bn[en.bonuses[c.i]], en, c.wins),
                bn, en.bonuses[c.i], c, "end", drawn)
    ELSE [en |-> en,
          bn |-> bn,
          c  |-> [c EXCEPT !.pc = "done",
                           !.ret = << [wins |-> c.wins,
                                       cascades |-> en.cascadesInChain] >>],
          drawn |-> drawn]

\* after the body b: the spin-end loop, unless the cascade loop never ended
AfterBody(b, bn, c) ==
    IF b.hung
    THEN [en |-> [b.en EXCEPT !.spinning = TRUE], bn |-> bn,
          c  |-> [c EXCEPT !.pc = "hung"], drawn |-> b.drawn]
    ELSE EndPhase(b.en, bn,
                  [c EXCEPT !.pc = "end", !.i = 1, !.wins = b.wins,
                            !.style = b.en.config.spinStyle,
                            !.passes = b.passes],
                  b.drawn)

\* The spin-start loop from hook c.i on: invoke the hook and await it, or,
\* past the last bonus, run the body and enter the spin-end loop.
StartPhase(en, bn, h, c, lucky) ==
    IF c.i <= Len(en.bonuses)
    THEN Hooked(onSpinStart(bn[en.bonuses[c.i]], en, lucky),
                bn, en.bonuses[c.i], c, "start", 0)
    ELSE AfterBody(SpinBody(en, Weights(en, h)), bn,
                   [c EXCEPT !.used = <<InForce(en, h)>>])

\* The outcomes of Math.random() < 0.25 in the spin-start hook c.i, when
\* call c is about to invoke a MultiplierBonus's.
Lucky(en, bn, c) ==
    IF c.pc = "start" /\ c.i <= Len(en.bonuses)
    THEN IF bn[en.bonuses[c.i]].kind = "Multiplier" THEN BOOLEAN ELSE {FALSE}
    ELSE {FALSE}

\* spin() called on engine e, past the guard
NewCall(e) ==
    [e |-> e, accepted |-> TRUE, pc |-> "start", i |-> 1, wins |-> <<>>,
     ret |-> <<>>, style |-> "", passes |-> 0, at |-> InForce(eng[e], heap),
     used |-> <<>>]

\* call k once the hook it awaits has settled
Woken(k) == [calls[k] EXCEPT !.i = @ + 1]

\* nothing runs any more once a cascade loop spins forever
Running == \A k \in DOMAIN calls : calls[k].pc # "hung"

ResultOf(c) == IF c.pc = "done" THEN c.ret[1] ELSE NoopResult(0)

\* the number of spin() calls, and of calls of setters and registerBonus
MaxCalls == 2

MaxSetters == 1

\* what a step of spin() leaves: s = [en, bn, c, drawn], k the call's index
SpinStep(op, k, s) ==
    /\ eng' = [eng EXCEPT ![s.c.e] = s.en]
    /\ bonus' = s.bn
    /\ calls' = [i \in 1..(IF k > Len(calls) THEN k ELSE Len(calls)) |->
                    IF i = k THEN s.c ELSE calls[i]]
    /\ last' = [Did(op, s.c.e, s.drawn, ResultOf(s.c).wins,
                    ResultOf(s.c).cascades, <<>>)
                EXCEPT !.call = k]
    /\ UNCHANGED <<heap, nset>>

\* a variant of Rejected that also clears the flag
RejectedClearingFlag(e, ret) ==
    [en |-> [eng[e] EXCEPT !.spinning = FALSE],
     bn |-> bonus,
     c  |-> [e |-> e, accepted |-> FALSE, pc |-> "done", i |-> 0,
             wins |-> <<>>, ret |-> <<ret>>, style |-> "", passes |-> 0,
             at |-> InForce(eng[e], heap), used |-> <<>>],
     drawn |-> 0]

\* a spin() that finds the engine spinning
Rejected(e, ret) ==
    [en |-> eng[e],
     bn |-> bonus,
     c  |-> [e |-> e, accepted |-> FALSE, pc |-> "done", i |-> 0,
             wins |-> <<>>, ret |-> <<ret>>, style |-> "", passes |-> 0,
             at |-> InForce(eng[e], heap), used |-> <<>>],
     drawn |-> 0]

\* spin() up to its first await (or to its return, when it awaits nothing)
SpinCall(e) ==
    /\ Running
    /\ Len(calls) < MaxCalls
    /\ IF eng[e].spinning
       THEN SpinStep("spinRejected", Len(calls) + 1, Rejected(e, NoopResult(eng[e])))
       ELSE \E lucky \in Lucky(eng[e], bonus, NewCall(e)) :
              SpinStep("spin", Len(calls) + 1,
                       StartPhase([eng[e] EXCEPT !.spinning = TRUE], bonus, heap,
                                  NewCall(e), lucky))

spin(e) == SpinCall(e) /\ UNCHANGED store

\* the continuation of call k after the hook it awaited has settled
spinResume(k) ==
    /\ UNCHANGED store
    /\ Running
    /\ calls[k].pc \in {"start", "end"}
    /\ \E lucky \in Lucky(eng[calls[k].e], bonus, Woken(k)) :
          SpinStep("spinResume", k,
                   IF calls[k].pc = "start"
                   THEN StartPhase(eng[calls[k].e], bonus, heap, Woken(k), lucky)
                   ELSE EndPhase(eng[calls[k].e], bonus, Woken(k), 0))

\* a variant of SetGridStep that leaves config.grid as it was
SetGridStepStaleConfig(e, size, f) ==
    /\ eng' = [eng EXCEPT ![e].grid = f.grid, ![e].rng = f.rng]
    /\ last' = Did("setGrid", e, f.drawn, <<>>, 0, <<>>)

\* setGrid's assignments, f the new grid filled
SetGridStep(e, size, f) ==
    /\ eng' = [eng EXCEPT ![e].config.grid = size,
                          ![e].grid = f.grid,
                          ![e].rng = f.rng]
    /\ last' = Did("setGrid", e, f.drawn, <<>>, 0, <<>>)

setGrid(e, size) ==
    /\ Running
    /\ nset < MaxSetters
    /\ nset' = nset + 1
    /\ SetGridStep(e, size, fillAllRandom(makeEmptyGrid(size), eng[e].rng,
                                          Weights(eng[e], heap), size))
    /\ UNCHANGED <<heap, bonus, calls, store>>

setSpinStyle(e, style) ==
    /\ Running
    /\ nset < MaxSetters
    /\ nset' = nset + 1
    /\ eng' = [eng EXCEPT ![e].config.spinStyle = style]
    /\ last' = Did("setSpinStyle", e, 0, <<>>, 0, <<>>)
    /\ UNCHANGED <<heap, bonus, calls, store>>

\* a variant of SetSpeedStep that takes an omitted fallSpeed to be spinSpeed
SetSpeedStepDefaulting(e, spinSpeed, fallSpeed) ==
    /\ eng' = [eng EXCEPT ![e].config.spinSpeed = spinSpeed,
                          ![e].config.fallSpeed =
                              IF fallSpeed # <<>> THEN fallSpeed[1] ELSE spinSpeed]
    /\ last' = [Did("setSpeed", e, 0, <<>>, 0, <<>>)
                EXCEPT !.arg = <<spinSpeed>> \o fallSpeed]

\* setSpeed's assignments; fallSpeed is <<v>>, or <<>> when the caller
\* passes none (or null)
SetSpeedStep(e, spinSpeed, fallSpeed) ==
    /\ eng' = [eng EXCEPT ![e].config.spinSpeed = spinSpeed,
                          ![e].config.fallSpeed =
                              IF fallSpeed # <<>> THEN fallSpeed[1] ELSE @]
    /\ last' = [Did("setSpeed", e, 0, <<>>, 0, <<>>)
                EXCEPT !.arg = <<spinSpeed>> \o fallSpeed]

setSpeed(e, spinSpeed, fallSpeed) ==
    /\ Running
    /\ nset < MaxSetters
    /\ nset' = nset + 1
    /\ SetSpeedStep(e, spinSpeed, fallSpeed)
    /\ UNCHANGED <<heap, bonus, calls, store>>

\* The keys of a table, in iteration order.
Keys(table) == [i \in DOMAIN table |-> table[i][1]]

HasKey(table, sym) == \E i \in DOMAIN table : table[i][1] = sym

\* table[sym], for a key of the table
WeightOf(table, sym) ==
    table[CHOOSE i \in DOMAIN table : table[i][1] = sym][2]

\* the entries of w, from the j-th on, whose keys the table does not have
RECURSIVE NewEntries(_, _, _)
NewEntries(table, w, j) ==
    IF j > Len(w) THEN <<>>
    ELSE IF HasKey(table, w[j][1]) THEN NewEntries(table, w, j + 1)
    ELSE <<w[j]>> \o NewEntries(table, w, j + 1)

\* a variant of Spread that keeps nothing of the table
SpreadReplacing(table, w) == w

\* { ...table, ...w }: the table's keys stay where they are and take w's
\* value when w has them; w's other keys follow in w's order.
Spread(table, w) ==
    [i \in DOMAIN table |->
        IF HasKey(w, table[i][1]) THEN <<table[i][1], WeightOf(w, table[i][1])>>
        ELSE table[i]]
    \o NewEntries(table, w, 1)

\* a variant of SetWeightsStep that writes the merged entries into the table
\* object the config points to
SetWeightsStepInPlace(e, w, t) ==
    /\ heap' = [heap EXCEPT ![eng[e].config.symbolWeights] = t]
    /\ eng' = eng
    /\ last' = [Did("setWeights", e, 0, <<>>, 0, <<>>) EXCEPT !.arg = w]

\* this.config.symbolWeights = { ...this.config.symbolWeights, ...weights }
\* makes a table object of its own, t, and points the config to it
SetWeightsStep(e, w, t) ==
    /\ heap' = Append(heap, t)
    /\ eng' = [eng EXCEPT ![e].config.symbolWeights = Len(heap) + 1]
    /\ last' = [Did("setWeights", e, 0, <<>>, 0, <<>>) EXCEPT !.arg = w]

setWeights(e, w) ==
    /\ Running
    /\ nset < MaxSetters
    /\ nset' = nset + 1
    /\ SetWeightsStep(e, w, Spread(Weights(eng[e], heap), w))
    /\ UNCHANGED <<bonus, calls, store>>

\* engine.registerBonus(new FreeSpinsBonus()), ...(new MultiplierBonus())
registerBonus(e, kind) ==
    /\ Running
    /\ nset < MaxSetters
    /\ nset' = nset + 1
    /\ bonus' = Append(bonus, NewBonus(kind))
    /\ eng' = [eng EXCEPT ![e].bonuses = Append(@, Len(bonus) + 1)]
    /\ last' = Did("registerBonus", e, 0, <<>>, 0, <<>>)
    /\ UNCHANGED <<heap, calls, store>>

(***************************************************************************)
(* Spec: one engine, constructed with a seed, a small weight table and a   *)
(* small grid, bare or with a FreeSpinsBonus registered as the store does, *)
(* and then driven through its interface in any order, also while spins    *)
(* are awaiting their hooks.                                               *)
(***************************************************************************)
SmallTable == << <<"sym_bear", 2>>, <<"sym_scatter_free_spins", 1>> >>

Seeds == {3, 123456789}

SpinStyles == {"regular", "cascading"}

InitSize == Size(3, 2)

SetSizes == {Size(4, 2), Size(3, 3)}

BonusKinds == {"FreeSpins", "Multiplier"}

\* the argument of setWeights: it names a symbol the table has not, with
\* weight 0, and takes the scatter out of the draw, so that sym_bear is the
\* one symbol left to draw
WeightUpdates ==
    { << <<"sym_wild", 0>>, <<"sym_scatter_free_spins", 0>> >> }

\* the bonuses registered right after construction
InitBonuses == {<<>>, <<"FreeSpins">>}

Init ==
    /\ heap = <<DEFAULT_WEIGHTS, SmallTable>>
    /\ \E kinds \in InitBonuses :
          /\ bonus = [i \in DOMAIN kinds |-> NewBonus(kinds[i])]
          /\ \E seed \in Seeds : \E style \in SpinStyles :
                eng = [e \in {1} |->
                          [constructor([grid |-> InitSize, spinStyle |-> style,
                                        symbolWeights |-> 2, rngSeed |-> <<seed>>],
                                       0, heap)
                           EXCEPT !.bonuses = [i \in DOMAIN kinds |-> i]]]
    /\ calls = <<>>
    /\ nset = 0
    /\ last = NoStep
    /\ store = NoStore

Next ==
    \/ \E e \in DOMAIN eng : spin(e)
    \/ \E k \in DOMAIN calls : spinResume(k)
    \/ \E e \in DOMAIN eng : \E size \in SetSizes : setGrid(e, size)
    \/ \E e \in DOMAIN eng : \E style \in SpinStyles : setSpinStyle(e, style)
    \/ \E e \in DOMAIN eng : \E w \in WeightUpdates : setWeights(e, w)
    \/ \E e \in DOMAIN eng : \E kind \in BonusKinds : registerBonus(e, kind)

Spec == Init /\ [][Next]_vars

(***************************************************************************)
(* SpecPair: two engines constructed from the same config (same seed, same *)
(* weight table), each with bonuses of its own, and given the same calls   *)
(* at the same moments.  Math.random() is drawn for each engine apart: in  *)
(* the constructor (used when the config has no seed) and in every         *)
(* MultiplierBonus.onSpinStart.  Engine 1 makes the odd calls, engine 2    *)
(* the even ones: calls 2j-1 and 2j are the j-th spin() of each.           *)
(***************************************************************************)
Engines == {1, 2}

\* Math.floor(Math.random() * 1e9) as the two constructors may see it
Randoms == {1, 2024}

PairBonuses == {<<"Multiplier">>}

\* the kind registered later on
PairKinds == {"FreeSpins"}

\* the bonus objects of engine e when each engine registered n of them
OwnBonuses(e, n) == [i \in 1..n |-> (e - 1) * n + i]

InitPair ==
    /\ heap = <<DEFAULT_WEIGHTS, SmallTable>>
    /\ \E kinds \in PairBonuses :
          /\ bonus = [i \in 1..(2 * Len(kinds)) |->
                         NewBonus(kinds[((i - 1) % Len(kinds)) + 1])]
          /\ \E seed \in Seeds : \E style \in SpinStyles :
             \E random \in [Engines -> Randoms] :
                eng = [e \in Engines |->
                          [constructor([grid |-> InitSize, spinStyle |-> style,
                                        symbolWeights |-> 2, rngSeed |-> <<seed>>],
                                       random[e], heap)
                           EXCEPT !.bonuses = OwnBonuses(e, Len(kinds))]]
    /\ calls = <<>>
    /\ nset = 0
    /\ last = NoStep
    /\ store = NoStore

\* the bonus objects after both engines' steps: each engine's hooks touch
\* the bonuses registered on that engine
BothBonuses(en1, bn1, bn2) ==
    [i \in DOMAIN bonus |->
        IF \E j \in DOMAIN en1.bonuses : en1.bonuses[j] = i THEN bn1[i] ELSE bn2[i]]

\* what the j-th spin() of both engines leaves: s1 and s2 as in SpinStep
PairStep(op, j, s1, s2) ==
    /\ eng' = [e \in Engines |-> IF e = 1 THEN s1.en ELSE s2.en]
    /\ bonus' = BothBonuses(s1.en, s1.bn, s2.bn)
    /\ calls' = [i \in 1..(IF 2 * j > Len(calls) THEN 2 * j ELSE Len(calls)) |->
                    IF i = 2 * j - 1 THEN s1.c
                    ELSE IF i = 2 * j THEN s2.c ELSE calls[i]]
    /\ last' = [Did(op, 1, s1.drawn, ResultOf(s1.c).wins,
                    ResultOf(s1.c).cascades, <<>>)
                EXCEPT !.call = 2 * j - 1]
    /\ UNCHANGED <<heap, nset, store>>

\* spin() on engine e, up to its first await
SpinOf(e, lucky) ==
    IF eng[e].spinning
    THEN Rejected(e, NoopResult(eng[e]))
    ELSE StartPhase([eng[e] EXCEPT !.spinning = TRUE], bonus, heap, NewCall(e),
                    lucky)

\* the continuation of call k, if it awaits a hook
ResumeOf(k, lucky) ==
    IF calls[k].pc = "start"
    THEN StartPhase(eng[calls[k].e], bonus, heap, Woken(k), lucky)
    ELSE IF calls[k].pc = "end"
    THEN EndPhase(eng[calls[k].e], bonus, Woken(k), 0)
    ELSE [en |-> eng[calls[k].e], bn |-> bonus, c |-> calls[k], drawn |-> 0]

\* the number of spin() calls on each engine of the pair
MaxPairCalls == 1

spinBoth ==
    /\ Running
    /\ Len(calls) < 2 * MaxPairCalls
    /\ \E l1 \in Lucky(eng[1], bonus, NewCall(1)) :
       \E l2 \in Lucky(eng[2], bonus, NewCall(2)) :
          PairStep("spin", (Len(calls) \div 2) + 1, SpinOf(1, l1), SpinOf(2, l2))

spinResumeBoth(j) ==
    /\ Running
    /\ \E k \in {2 * j - 1, 2 * j} : calls[k].pc \in {"start", "end"}
    /\ \E l1 \in Lucky(eng[1], bonus, Woken(2 * j - 1)) :
       \E l2 \in Lucky(eng[2], bonus, Woken(2 * j)) :
          PairStep("spinResume", j, ResumeOf(2 * j - 1, l1), ResumeOf(2 * j, l2))

\* the grid of engine e after setGrid(size)
Regrid(e, size) ==
    fillAllRandom(makeEmptyGrid(size), eng[e].rng, Weights(eng[e], heap), size)

SetGridBothStep(size, f1, f2) ==
    /\ eng' = [e \in Engines |->
                  [eng[e] EXCEPT !.config.grid = size,
                                 !.grid = IF e = 1 THEN f1.grid ELSE f2.grid,
                                 !.rng = IF e = 1 THEN f1.rng ELSE f2.rng]]
    /\ last' = Did("setGrid", 1, f1.drawn, <<>>, 0, <<>>)

setGridBoth(size) ==
    /\ Running
    /\ nset < MaxSetters
    /\ nset' = nset + 1
    /\ SetGridBothStep(size, Regrid(1, size), Regrid(2, size))
    /\ UNCHANGED <<heap, bonus, calls, store>>

setSpinStyleBoth(style) ==
    /\ Running
    /\ nset < MaxSetters
    /\ nset' = nset + 1
    /\ eng' = [e \in Engines |-> [eng[e] EXCEPT !.config.spinStyle = style]]
    /\ last' = Did("setSpinStyle", 1, 0, <<>>, 0, <<>>)
    /\ UNCHANGED <<heap, bonus, calls, store>>

registerBonusBoth(kind) ==
    /\ Running
    /\ nset < MaxSetters
    /\ nset' = nset + 1
    /\ bonus' = bonus \o <<NewBonus(kind), NewBonus(kind)>>
    /\ eng' = [e \in Engines |->
                  [eng[e] EXCEPT !.bonuses = Append(@, Len(bonus) + e)]]
    /\ last' = Did("registerBonus", 1, 0, <<>>, 0, <<>>)
    /\ UNCHANGED <<heap, calls, store>>

NextPair ==
    \/ spinBoth
    \/ \E j \in 1..(Len(calls) \div 2) : spinResumeBoth(j)
    \/ \E size \in SetSizes : setGridBoth(size)
    \/ \E style \in SpinStyles : setSpinStyleBoth(style)
    \/ \E kind \in PairKinds : registerBonusBoth(kind)

SpecPair == InitPair /\ [][NextPair]_vars

(***************************************************************************)
(* SpecZero: the pair again, engine 1 constructed with rngSeed 0 and       *)
(* engine 2 with rngSeed 123456789, and given the same calls at the same   *)
(* moments.                                                                *)
(***************************************************************************)
ZeroSeeds == <<0, FallbackSeed>>

ZeroSizes == {Size(3, 2), Size(3, 1)}

\* the weight table the two engines are constructed with
ZeroTable == <<<<"sym_bear", 3>>, <<"sym_scatter_free_spins", 1>>>>

InitZero ==
    /\ heap = <<DEFAULT_WEIGHTS, ZeroTable>>
    /\ \E kinds \in PairBonuses :
          /\ bonus = [i \in 1..(2 * Len(kinds)) |->
                         NewBonus(kinds[((i - 1) % Len(kinds)) + 1])]
          /\ \E size \in ZeroSizes : \E style \in SpinStyles :
             \E random \in [Engines -> Randoms] :
                eng = [e \in Engines |->
                          [constructor([grid |-> size, spinStyle |-> style,
                                        symbolWeights |-> 2,
                                        rngSeed |-> <<ZeroSeeds[e]>>],
                                       random[e], heap)
                           EXCEPT !.bonuses = OwnBonuses(e, Len(kinds))]]
    /\ calls = <<>>
    /\ nset = 0
    /\ last = NoStep
    /\ store = NoStore

SpecZero == InitZero /\ [][NextPair]_vars

(***************************************************************************)
(* SpecStore: the slotStore module.  Its engine is new SlotEngine() with a *)
(* FreeSpinsBonus and a MultiplierBonus registered (and, engineRef being   *)
(* exported, possibly a further bonus); doSpin() is called any number of   *)
(* times, also while earlier calls are pending.  A doSpin() call is        *)
(* [call, pc]: the engine spin() it made, and "await" while it awaits that *)
(* promise, "done" once it has returned, "thrown" once it has rejected.    *)
(***************************************************************************)
StoreBonuses == {<<"FreeSpins", "Multiplier">>,
                 <<"FreeSpins", "Multiplier", "ThrowsAtEnd">>}

StoreRandoms == {1, 2024}

InitStore ==
    /\ heap = <<DEFAULT_WEIGHTS>>
    /\ \E kinds \in StoreBonuses : \E random \in StoreRandoms :
          /\ bonus = [i \in DOMAIN kinds |-> NewBonus(kinds[i])]
          /\ eng = << [constructor([grid |-> Size(5, 3), spinStyle |-> "regular",
                                    symbolWeights |-> 1, rngSeed |-> <<>>],
                                   random, heap)
                       EXCEPT !.bonuses = [i \in DOMAIN kinds |-> i]] >>
          /\ store = [isSpinning   |-> FALSE,
                      gridSnapshot |-> getSnapshot(eng[1].grid),
                      pending      |-> <<>>]
    /\ calls = <<>>
    /\ nset = 0
    /\ last = NoStep

\* doSpin() up to its await: isSpinning.set(true); engine.spin()
doSpin ==
    /\ store' = [store EXCEPT !.isSpinning = TRUE,
                              !.pending = Append(@, [call |-> Len(calls) + 1,
                                                     pc   |-> "await"])]
    /\ SpinCall(1)

\* the rest of doSpin() call d once engine.spin() has resolved
DoSpinReturn(d) ==
    [store EXCEPT !.gridSnapshot = getSnapshot(eng[1].grid),
                  !.isSpinning = FALSE,
                  !.pending[d].pc = "done"]

\* doSpin() call d resumes after its await: the rest of the function, or,
\* engine.spin() having rejected, doSpin() rejects
doSpinResume(d) ==
    /\ Running
    /\ store.pending[d].pc = "await"
    /\ calls[store.pending[d].call].pc \in {"done", "thrown"}
    /\ store' = IF calls[store.pending[d].call].pc = "done"
                THEN DoSpinReturn(d)
                ELSE [store EXCEPT !.pending[d].pc = "thrown"]
    /\ last' = [Did("doSpinResume", 1, 0, <<>>, 0, <<>>)
                EXCEPT !.call = store.pending[d].call]
    /\ UNCHANGED <<eng, heap, bonus, calls, nset>>

NextStore ==
    \/ doSpin
    \/ \E k \in DOMAIN calls : spinResume(k)
    \/ \E d \in DOMAIN store.pending : doSpinResume(d)

SpecStore == InitStore /\ [][NextStore]_vars

(***************************************************************************)
(* SpecHooks: one engine whose registered bonuses are the shipped ones     *)
(* and, between or after them, a bonus whose hook throws.                  *)
(***************************************************************************)
ShippedKinds == {"FreeSpins", "Multiplier"}

HookLists == {<<"Multiplier", "ThrowsAtStart", "FreeSpins">>,
              <<"FreeSpins", "ThrowsAtEnd", "Multiplier">>,
              <<"FreeSpins", "Multiplier">>}

\* the kind registered later on
HookKinds == {"ThrowsAtEnd"}

InitHooks ==
    /\ heap = <<DEFAULT_WEIGHTS, SmallTable>>
    /\ \E kinds \in HookLists :
          /\ bonus = [i \in DOMAIN kinds |-> NewBonus(kinds[i])]
          /\ \E seed \in Seeds : \E style \in SpinStyles :
                eng = << [constructor([grid |-> InitSize, spinStyle |-> style,
                                       symbolWeights |-> 2, rngSeed |-> <<seed>>],
                                      0, heap)
                          EXCEPT !.bonuses = [i \in DOMAIN kinds |-> i]] >>
    /\ calls = <<>>
    /\ nset = 0
    /\ last = NoStep
    /\ store = NoStore

NextHooks ==
    \/ \E e \in DOMAIN eng : spin(e)
    \/ \E k \in DOMAIN calls : spinResume(k)
    \/ \E e \in DOMAIN eng : \E kind \in HookKinds : registerBonus(e, kind)

SpecHooks == InitHooks /\ [][NextHooks]_vars

(***************************************************************************)
(* SpecPure: the engine's public methods evaluateWins, deleteWins,         *)
(* applyGravity and fillTop called directly on an engine whose public      *)
(* grid field holds any pattern of symbols and empty cells.                *)
(***************************************************************************)
MaxPureCalls == 2

\* the grids tried: one row and one column of five cells over three
\* symbols, and two grids of several rows and columns over two symbols
PureInputs ==
    { <<Size(5, 1), {"sym_bear", "sym_wolf", "sym_elk"}>>,
      <<Size(1, 5), {"sym_bear", "sym_wolf", "sym_elk"}>>,
      <<Size(3, 2), {"sym_bear", "sym_wolf"}>>,
      <<Size(2, 3), {"sym_bear", "sym_wolf"}>> }

PureTable == << <<"sym_bear", 1>>, <<"sym_wolf", 1>>, <<"sym_elk", 1>> >>

GridsOf(size, syms) ==
    [0..(size.cols - 1) -> [0..(size.rows - 1) -> syms \cup {NULL}]]

InitPure ==
    /\ heap = <<DEFAULT_WEIGHTS, PureTable>>
    /\ \E in \in PureInputs :
          \E g \in GridsOf(in[1], in[2]) :
              eng = [e \in {1} |->
                        [constructor([grid |-> in[1], spinStyle |-> "cascading",
                                      symbolWeights |-> 2, rngSeed |-> <<1>>],
                                     0, heap)
                         EXCEPT !.grid = g]]
    /\ bonus = <<>>
    /\ calls = <<>>
    /\ nset = 0
    /\ last = NoStep
    /\ store = NoStore

\* deleteWins' assignments
DeleteStep(op, e, wins) ==
    /\ eng' = [eng EXCEPT ![e].grid = deleteWins(@, wins)]
    /\ last' = Did(op, e, 0, wins, 0, eng[e].grid)

\* fillTop's assignments, f the grid filled
FillTopStep(e, f) ==
    /\ eng' = [eng EXCEPT ![e].grid = f.grid, ![e].rng = f.rng]
    /\ last' = Did("fillTop", e, f.drawn, <<>>, 0, eng[e].grid)

\* a variant of callEvaluateWins that empties the cells of the Wins it found
callEvaluateWinsClearing(e) ==
    /\ nset < MaxPureCalls
    /\ nset' = nset + 1
    /\ DeleteStep("evaluateWins", e, evaluateWins(eng[e].grid, eng[e].config.grid))
    /\ UNCHANGED <<heap, bonus, calls, store>>

callEvaluateWins(e) ==
    /\ nset < MaxPureCalls
    /\ nset' = nset + 1
    /\ last' = Did("evaluateWins", e, 0,
                   evaluateWins(eng[e].grid, eng[e].config.grid), 0, eng[e].grid)
    /\ UNCHANGED <<eng, heap, bonus, calls, store>>

\* deleteWins(wins) with the list evaluateWins returns for the grid
callDeleteWins(e) ==
    /\ nset < MaxPureCalls
    /\ nset' = nset + 1
    /\ DeleteStep("deleteWins", e, evaluateWins(eng[e].grid, eng[e].config.grid))
    /\ UNCHANGED <<heap, bonus, calls, store>>

callApplyGravity(e) ==
    /\ nset < MaxPureCalls
    /\ nset' = nset + 1
    /\ eng' = [eng EXCEPT ![e].grid = applyGravity(@, eng[e].config.grid)]
    /\ last' = Did("applyGravity", e, 0, <<>>, 0, eng[e].grid)
    /\ UNCHANGED <<heap, bonus, calls, store>>

callFillTop(e) ==
    /\ nset < MaxPureCalls
    /\ nset' = nset + 1
    /\ FillTopStep(e, fillTop(eng[e].grid, eng[e].rng, Weights(eng[e], heap),
                              eng[e].config.grid))
    /\ UNCHANGED <<heap, bonus, calls, store>>

NextPure ==
    \/ \E e \in DOMAIN eng : callEvaluateWins(e)
    \/ \E e \in DOMAIN eng : callDeleteWins(e)
    \/ \E e \in DOMAIN eng : callApplyGravity(e)
    \/ \E e \in DOMAIN eng : callFillTop(e)

SpecPure == InitPure /\ [][NextPure]_vars

(***************************************************************************)
(* SpecCascade: the body of the cascade loop run on such an engine, one    *)
(* iteration a step: with the list evaluateWins returns for the grid, as   *)
(* long as it is not empty, deleteWins, applyGravity, fillTop.             *)
(***************************************************************************)
\* the iteration's assignments, f the grid refilled; last.arg is the RNG
\* state the iteration started from
CascadeStep(e, wins, f) ==
    /\ eng' = [eng EXCEPT ![e].grid = f.grid, ![e].rng = f.rng]
    /\ last' = [Did("cascadePass", e, f.drawn, wins, 0, eng[e].grid)
                EXCEPT !.arg = <<eng[e].rng>>]

cascadePass(e) ==
    /\ nset < MaxPureCalls
    /\ nset' = nset + 1
    /\ evaluateWins(eng[e].grid, eng[e].config.grid) # <<>>
    /\ CascadeStep(e, evaluateWins(eng[e].grid, eng[e].config.grid),
                   CascadeIteration(eng[e].grid, eng[e].rng,
                                    evaluateWins(eng[e].grid, eng[e].config.grid),
                                    Weights(eng[e], heap), eng[e].config.grid))
    /\ UNCHANGED <<heap, bonus, calls, store>>

NextCascade == \E e \in DOMAIN eng : cascadePass(e)

SpecCascade == InitPure /\ [][NextCascade]_vars

(***************************************************************************)
(* SpecSnap: getSnapshot called between spins and setGrid calls, and the   *)
(* caller writing into the matrices it was handed.  A matrix getSnapshot   *)
(* returns is an object of its own: an array of columns, each column       *)
(* either an array of its own holding symbols ([own |-> TRUE, items]) or   *)
(* the engine's own column array c ([own |-> FALSE, c]).  The objects are  *)
(* kept in heap, after the weight tables.                                  *)
(***************************************************************************)
\* the number of getSnapshot calls
MaxSnaps == 1

\* a variant of SnapshotColumn that hands out the engine's column array
SnapshotColumnShared(en, c) == [own |-> FALSE, c |-> c]

\* col.map(cell => cell.sym): an array of its own with the symbols of the
\* cells of column c
SnapshotColumn(en, c) == [own |-> TRUE, items |-> getSnapshot(en.grid)[c]]

\* this.grid.map(col => ...): an array of its own with one entry a column
SnapshotOf(en) == [cols |-> [c \in DOMAIN en.grid |-> SnapshotColumn(en, c)]]

IsSnapshot(h, s) == s \in DOMAIN h /\ s > 2

\* what reading matrix object m gives, on engine en
View(m, en) ==
    [c \in DOMAIN m.cols |->
        IF m.cols[c].own THEN m.cols[c].items ELSE en.grid[m.cols[c].c]]

InitSnap ==
    /\ heap = <<DEFAULT_WEIGHTS, SmallTable>>
    /\ \E seed \in Seeds : \E style \in SpinStyles :
          eng = [e \in {1} |->
                    constructor([grid |-> InitSize, spinStyle |-> style,
                                 symbolWeights |-> 2, rngSeed |-> <<seed>>],
                                0, heap)]
    /\ bonus = <<>>
    /\ calls = <<>>
    /\ nset = 0
    /\ last = NoStep
    /\ store = NoStore

callGetSnapshot(e) ==
    /\ Len(heap) < 2 + MaxSnaps
    /\ heap' = Append(heap, SnapshotOf(eng[e]))
    /\ last' = [Did("getSnapshot", e, 0, <<>>, 0, <<>>) EXCEPT !.arg = Len(heap) + 1]
    /\ UNCHANGED <<eng, bonus, calls, nset, store>>

\* snapshot[c][r] = sym on the matrix object s: the assignment lands in
\* the column array the matrix holds at c
writeSnapshot(e, s, c, r, sym) ==
    /\ IsSnapshot(heap, s)
    /\ nset < MaxSetters
    /\ nset' = nset + 1
    /\ c \in DOMAIN heap[s].cols
    /\ r \in DOMAIN View(heap[s], eng[e])[c]
    /\ IF heap[s].cols[c].own
       THEN /\ heap' = [heap EXCEPT ![s].cols[c].items[r] = sym]
            /\ UNCHANGED eng
       ELSE /\ eng' = [eng EXCEPT ![e].grid[heap[s].cols[c].c][r] = sym]
            /\ UNCHANGED heap
    /\ last' = [Did("writeSnapshot", e, 0, <<>>, 0, <<>>) EXCEPT !.arg = s]
    /\ UNCHANGED <<bonus, calls, store>>

\* the cells the caller writes and the symbol it writes
WrittenCells == {<<0, 0>>, <<2, 1>>}

WrittenSymbol == "sym_wild"

NextSnap ==
    \/ \E e \in DOMAIN eng : callGetSnapshot(e)
    \/ \E e \in DOMAIN eng : \E s \in DOMAIN heap : \E cr \in WrittenCells :
          writeSnapshot(e, s, cr[1], cr[2], WrittenSymbol)
    \/ \E e \in DOMAIN eng : spin(e)
    \/ \E e \in DOMAIN eng : \E size \in SetSizes : setGrid(e, size)

SpecSnap == InitSnap /\ [][NextSnap]_vars

(***************************************************************************)
(* SpecTwo: two engines built with the default configuration, new          *)
(* SlotEngine().  Both configs point to the one DEFAULT_WEIGHTS object,    *)
(* heap[1].  Engine 1 is given the whole interface; engine 2 only spins.   *)
(***************************************************************************)
DefaultConfig ==
    [grid |-> Size(5, 3), spinStyle |-> "regular", symbolWeights |-> 1,
     rngSeed |-> <<>>]

\* Math.floor(Math.random() * 1e9) as the two constructors see it
TwoRandoms == <<1, 2024>>

\* the sizes setGrid is called with: one of them has no column
TwoSizes == {Size(0, 3), Size(3, 2)}

\* the arguments of setSpeed: <<spinSpeed, fallSpeed>>
SpeedArgs == {<<30, <<>>>>, <<30, <<40>>>>}

TwoKinds == {"FreeSpins"}

InitTwo ==
    /\ heap = <<DEFAULT_WEIGHTS, SmallTable>>
    /\ bonus = <<>>
    /\ eng = [e \in Engines |-> constructor(DefaultConfig, TwoRandoms[e], heap)]
    /\ calls = <<>>
    /\ nset = 0
    /\ last = NoStep
    /\ store = NoStore

NextTwo ==
    \/ \E e \in DOMAIN eng : spin(e)
    \/ \E k \in DOMAIN calls : spinResume(k)
    \/ \E size \in TwoSizes : setGrid(1, size)
    \/ setSpinStyle(1, "cascading")
    \/ \E a \in SpeedArgs : setSpeed(1, a[1], a[2])
    \/ \E w \in WeightUpdates : setWeights(1, w)
    \/ \E kind \in TwoKinds : registerBonus(1, kind)
    \/ callGetSnapshot(1)

SpecTwo == InitTwo /\ [][NextTwo]_vars

(***************************************************************************)
(* SpecPick: setWeights and pickRandomSymbol called on engines of one cell, *)
(* over weight tables of two, three, four and twelve symbols, weights of 0 *)
(* among them, and over the draws of several seeds; seed -67100673 makes   *)
(* the first draw after construction 0.                                    *)
(***************************************************************************)
PickTables ==
    { DEFAULT_WEIGHTS, SmallTable, PureTable,
      << <<"sym_bear", 0>>, <<"sym_wolf", 3>>, <<"sym_elk", 0>>, <<"sym_wild", 1>> >> }

PickSeeds == (1..40) \cup {-67100673, 123456789}

\* the arguments of setWeights: known and unknown symbols, one and several
PickUpdates ==
    { << <<"sym_wild", 0>>, <<"sym_scatter_free_spins", 0>> >>,
      << <<"sym_bear", 5>> >>,
      << <<"sym_elk", 2>>, <<"sym_buffalo", 7>>, <<"sym_wolf", 0>> >> }

InitPick ==
    /\ \E table \in PickTables : heap = <<DEFAULT_WEIGHTS, table>>
    /\ \E seed \in PickSeeds :
          eng = [e \in {1} |->
                    constructor([grid |-> Size(1, 1), spinStyle |-> "regular",
                                 symbolWeights |-> 2, rngSeed |-> <<seed>>],
                                0, heap)]
    /\ bonus = <<>>
    /\ calls = <<>>
    /\ nset = 0
    /\ last = NoStep
    /\ store = NoStore

\* pickRandomSymbol's effect, x the generator's state after the draw
PickStep(e, x, sym) ==
    /\ eng' = [eng EXCEPT ![e].rng = x]
    /\ last' = [Did("pickRandomSymbol", e, 1, <<>>, 0, <<>>) EXCEPT !.arg = <<x, sym>>]

PickDrawn(e, x) == PickStep(e, x, pickRandomSymbol(Weights(eng[e], heap), x))

callPickRandomSymbol(e) ==
    /\ nset < MaxPureCalls
    /\ nset' = nset + 1
    /\ PickDrawn(e, XorShift(eng[e].rng))
    /\ UNCHANGED <<heap, bonus, calls, store>>

NextPick ==
    \/ \E e \in DOMAIN eng : callPickRandomSymbol(e)
    \/ \E e \in DOMAIN eng : \E w \in PickUpdates : setWeights(e, w)

SpecPick == InitPick /\ [][NextPick]_vars

(***************************************************************************)
(* What the grid methods are to compute, stated without the loops.         *)
(***************************************************************************)
Full(grid) == \A c \in DOMAIN grid : \A r \in DOMAIN grid[c] : grid[c][r] # NULL

\* columns a..b of row r are a maximal run of one symbol
IsRun(grid, size, r, a, b) ==
    /\ a <= b
    /\ \A c \in a..b : grid[c][r] # NULL /\ grid[c][r] = grid[a][r]
    /\ a = 0 \/ grid[a - 1][r] # grid[a][r]
    /\ b = size.cols - 1 \/ grid[b + 1][r] # grid[a][r]

QualifyingRuns(grid, size) ==
    {run \in (0..(size.rows - 1)) \X (0..(size.cols - 1)) \X (0..(size.cols - 1)) :
        IsRun(grid, size, run[1], run[2], run[3]) /\ run[3] - run[2] + 1 >= 3}

RunWin(run) ==
    [cells  |-> [j \in 1..(run[3] - run[2] + 1) |-> [c |-> run[2] + j - 1, r |-> run[1]]],
     payout |-> 10 * (run[3] - run[2] + 1)]

WinsAreTheRuns(wins, grid, size) ==
    /\ Len(wins) = Cardinality(QualifyingRuns(grid, size))
    /\ \A i \in DOMAIN wins : \E run \in QualifyingRuns(grid, size) : wins[i] = RunWin(run)
    /\ \A i, j \in DOMAIN wins :
          i < j => \/ wins[i].cells[1].r < wins[j].cells[1].r
                   \/ /\ wins[i].cells[1].r = wins[j].cells[1].r
                      /\ wins[i].cells[1].c < wins[j].cells[1].c

\* the cells of a Win are at consecutive columns of one row
Contiguous(win) ==
    \A j \in 1..(Len(win.cells) - 1) :
        /\ win.cells[j + 1].r = win.cells[j].r
        /\ win.cells[j + 1].c = win.cells[j].c + 1

\* a column top to bottom, as a sequence
ColSeq(col, rows) == [i \in 1..rows |-> col[i - 1]]

IsSym(s) == s # NULL

\* new is old with its symbols moved to the bottom, in the same order
Compacted(old, new, rows) ==
    LET syms == SelectSeq(ColSeq(old, rows), IsSym)
    IN  ColSeq(new, rows) = [i \in 1..(rows - Len(syms)) |-> NULL] \o syms

C7_EmptyCellBreaksRun ==
    last.op = "evaluateWins" => \A i \in DOMAIN last.wins : Contiguous(last.wins[i])

(***************************************************************************)
(* C8: evaluateWins is a pure function of the grid: a call changes no      *)
(* engine field (cells, config, RNG state, counters), no weight table, no  *)
(* bonus and no spin in flight, and a second call right after the first    *)
(* returns the same Win list.                                              *)
(***************************************************************************)
C8_EvaluateWinsPure ==
    [][(last'.op = "evaluateWins" /\ nset' = nset + 1)
          => /\ eng' = eng
             /\ heap' = heap
             /\ bonus' = bonus
             /\ calls' = calls
             /\ (last.op = "evaluateWins" => last'.wins = last.wins)]_vars

\* evaluateWins has been called twice in a row on a grid with a run
C8_Witness ==
    /\ last.op = "evaluateWins"
    /\ last.prev = "evaluateWins"
    /\ last.wins # <<>>
    /\ eng[last.e].grid = last.pre

(***************************************************************************)
(* C9: applyGravity is a stable compaction of every column: the symbols    *)
(* end at the highest row indices in their former top-to-bottom order, the *)
(* empty cells above them, each column by itself.                          *)
(***************************************************************************)
C9_GravityStableCompaction ==
    last.op = "applyGravity"
        => \A c \in DOMAIN last.pre :
              Compacted(last.pre[c], eng[last.e].grid[c], eng[last.e].config.grid.rows)

\* the column [bear, empty, wolf, empty, elk] became
\* [empty, empty, bear, wolf, elk]
C9_Witness ==
    /\ last.op = "applyGravity"
    /\ eng[1].config.grid = Size(1, 5)
    /\ ColSeq(last.pre[0], 5) = <<"sym_bear", NULL, "sym_wolf", NULL, "sym_elk">>
    /\ ColSeq(eng[1].grid[0], 5) = <<NULL, NULL, "sym_bear", "sym_wolf", "sym_elk">>

(***************************************************************************)
(* Claims about the engine driven through its interface (Spec).            *)
(***************************************************************************)
\* the calls of engine e that passed the guard and have not resolved
Active(e) ==
    {k \in DOMAIN calls :
        calls[k].e = e /\ calls[k].accepted /\ calls[k].pc \notin {"done", "thrown"}}

\* the step added a spin() call
Called == Len(calls') = Len(calls) + 1

WellFormed(grid, size) ==
    /\ DOMAIN grid = 0..(size.cols - 1)
    /\ \A c \in DOMAIN grid : DOMAIN grid[c] = 0..(size.rows - 1)

(***************************************************************************)
(* C1: at most one spin is active per engine: never have two spin() calls  *)
(* of one engine both passed the guard with neither resolved.              *)
(***************************************************************************)
C1_AtMostOneActiveSpin ==
    \A e \in DOMAIN eng : Cardinality(Active(e)) <= 1

C3_NoEmptyCellAtRest ==
    \A e \in DOMAIN eng : Full(eng[e].grid)

\* a cascading spin has deleted, dropped and refilled cells, and resolved
C3_Witness ==
    \E k \in DOMAIN calls :
        /\ calls[k].pc = "done"
        /\ calls[k].accepted
        /\ calls[k].style = "cascading"
        /\ calls[k].ret[1].cascades >= 1
        /\ Full(eng[calls[k].e].grid)

(***************************************************************************)
(* C4: the grid always has config.grid.cols columns of config.grid.rows    *)
(* cells, also when setGrid is called while a spin awaits a hook, and a    *)
(* setGrid fills every cell of the new grid with a draw of its own.        *)
(***************************************************************************)
C4_GridMatchesConfig ==
    /\ \A e \in DOMAIN eng : WellFormed(eng[e].grid, eng[e].config.grid)
    /\ last.op = "setGrid"
          => /\ last.drawn = eng[last.e].config.grid.cols * eng[last.e].config.grid.rows
             /\ Full(eng[last.e].grid)

\* setGrid has given the engine another size while a spin awaits a hook
C4_Witness ==
    /\ last.op = "setGrid"
    /\ eng[last.e].config.grid # InitSize
    /\ \E k \in Active(last.e) : calls[k].pc = "start"

(***************************************************************************)
(* C10: when a spin() whose body ran in cascading style resolves, the grid *)
(* holds no horizontal run of three or more equal symbols.                 *)
(***************************************************************************)
C10_ResolvedCascadeLeavesNoRun ==
    (/\ last.call # 0
     /\ calls[last.call].pc = "done"
     /\ calls[last.call].style = "cascading")
        => evaluateWins(eng[last.e].grid, eng[last.e].config.grid) = <<>>

(***************************************************************************)
(* C5: two engines constructed with the same non-zero seed and the same    *)
(* weight table and given the same spin() and setter calls show the same   *)
(* grid snapshot after every step, and their spin() calls resolve at the   *)
(* same steps with the same wins and cascades, whatever their bonuses have *)
(* drawn from Math.random().                                               *)
(***************************************************************************)
C5_SameSeedSameRun ==
    /\ getSnapshot(eng[1].grid) = getSnapshot(eng[2].grid)
    /\ \A j \in 1..(Len(calls) \div 2) :
          /\ calls[2 * j - 1].pc = calls[2 * j].pc
          /\ calls[2 * j - 1].ret = calls[2 * j].ret

\* both engines have resolved a cascading spin that cascaded, with the same
\* result, while their MultiplierBonuses have come to differ
C5_Witness ==
    /\ \E j \in 1..(Len(calls) \div 2) :
          /\ calls[2 * j].pc = "done"
          /\ calls[2 * j].accepted
          /\ calls[2 * j].ret[1].cascades >= 1
          /\ calls[2 * j - 1].ret = calls[2 * j].ret
    /\ \E i \in DOMAIN eng[1].bonuses :
          bonus[eng[1].bonuses[i]] # bonus[eng[2].bonuses[i]]
    /\ getSnapshot(eng[1].grid) = getSnapshot(eng[2].grid)

(***************************************************************************)
(* C23: an engine constructed with rngSeed 0 runs on the generator state   *)
(* 123456789: it shows the same initial grid as an engine constructed with *)
(* rngSeed 123456789, and given the same calls the two show the same grid  *)
(* and generator state after every step and their spin() calls resolve     *)
(* with the same wins and cascades.                                        *)
(***************************************************************************)
C23_ZeroSeedFallsBack ==
    /\ eng[1].grid = eng[2].grid
    /\ eng[1].rng = eng[2].rng
    /\ eng[1].rng # 0
    /\ \A j \in 1..(Len(calls) \div 2) :
          /\ calls[2 * j - 1].pc = calls[2 * j].pc
          /\ ResultOf(calls[2 * j - 1]) = ResultOf(calls[2 * j])

\* the engine seeded 0 and the engine seeded 123456789 have both resolved a
\* spin that won, with the same result
C23_Witness ==
    /\ eng[1].config.rngSeed = 0
    /\ eng[2].config.rngSeed = FallbackSeed
    /\ Len(calls) = 2
    /\ calls[1].pc = "done" /\ calls[1].accepted
    /\ calls[2].pc = "done" /\ calls[2].accepted
    /\ calls[1].ret[1].wins # <<>>
    /\ calls[1].ret = calls[2].ret
    /\ Full(eng[1].grid)

(***************************************************************************)
(* C11: the cascades value an accepted spin() returns is the number of     *)
(* delete-gravity-refill iterations that spin completed; a spin that ran   *)
(* in regular style returns cascades = 0.                                  *)
(***************************************************************************)
C11_CascadesCountsOwnPasses ==
    \A k \in DOMAIN calls :
        (calls[k].accepted /\ calls[k].pc = "done")
            => /\ calls[k].ret[1].cascades = calls[k].passes
               /\ calls[k].style = "regular" => calls[k].ret[1].cascades = 0

(***************************************************************************)
(* C12: a spin() whose body ran in cascading style returns an empty wins   *)
(* list, whatever its first evaluation and its cascade passes found.       *)
(***************************************************************************)
C12_CascadingReturnsNoWins ==
    \A k \in DOMAIN calls :
        (calls[k].accepted /\ calls[k].pc = "done" /\ calls[k].style = "cascading")
            => calls[k].ret[1].wins = <<>>

\* a cascading spin whose first evaluation found Wins has resolved
C12_Witness ==
    \E k \in DOMAIN calls :
        /\ calls[k].accepted
        /\ calls[k].pc = "done"
        /\ calls[k].style = "cascading"
        /\ calls[k].passes >= 1
        /\ calls[k].ret[1].wins = <<>>

(***************************************************************************)
(* C13: a spin() whose body runs in regular style draws exactly cols x     *)
(* rows symbols, completes no cascade iteration and empties no cell, and   *)
(* the Win list it holds and later returns is evaluateWins of the grid its *)
(* body leaves: the winning runs stay on the grid.                         *)
(***************************************************************************)
C13_RegularSpinRefillsOnce ==
    \A k \in DOMAIN calls :
        (calls[k].accepted /\ calls[k].style = "regular")
            => /\ calls[k].passes = 0
               /\ calls[k].pc = "done" => calls[k].ret[1].wins = calls[k].wins
               /\ (last.call = k /\ last.drawn > 0)
                     => /\ last.drawn = eng[last.e].config.grid.cols
                                          * eng[last.e].config.grid.rows
                        /\ Full(eng[last.e].grid)
                        /\ calls[k].wins = evaluateWins(eng[last.e].grid,
                                                        eng[last.e].config.grid)

\* a regular spin has just filled a grid with winning runs on it
C13_Witness ==
    /\ last.call # 0
    /\ last.drawn > 0
    /\ calls[last.call].style = "regular"
    /\ calls[last.call].wins # <<>>
    /\ evaluateWins(eng[last.e].grid, eng[last.e].config.grid) = calls[last.call].wins

(***************************************************************************)
(* C14: within one accepted spin() the hooks run in protocol order.  Every *)
(* step of the call invokes at most one hook, the next one in registration *)
(* order, and stops at its await; the body (refill, evaluation, cascade    *)
(* chain) runs only once the last onSpinStart has been awaited; onSpinEnd  *)
(* hooks are invoked only after the body, first to last; and the call      *)
(* resolves only after the last onSpinEnd has been awaited.                *)
(***************************************************************************)
\* the step ran accepted call k
StepOf(k) ==
    /\ calls'[k].accepted
    /\ k \in DOMAIN calls => calls'[k] # calls[k]

\* where call k stood before the step
Before(k) ==
    IF k \in DOMAIN calls THEN calls[k] ELSE [NewCall(1) EXCEPT !.i = 0]

\* the step touched no bonus but b
OnlyHook(b) == \A j \in DOMAIN bonus : j # b => bonus'[j] = bonus[j]

\* a step that takes a call from c to d on an engine with these hooks; ran
\* tells whether the body ran in the step
ProtocolStep(c, d, hooks, ran) ==
    /\ d.pc = "start"
          => /\ c.pc = "start" /\ d.i = c.i + 1 /\ d.i <= Len(hooks)
             /\ d.used = <<>>
             /\ last'.drawn = 0
             /\ OnlyHook(hooks[d.i])
             /\ \E lucky \in BOOLEAN :
                   bonus'[hooks[d.i]] =
                      onSpinStart(bonus[hooks[d.i]], eng[d.e], lucky).b
    /\ ran => c.pc = "start" /\ c.i = Len(hooks)
    /\ d.pc = "end"
          => /\ d.used # <<>>
             /\ d.i = (IF ran THEN 1 ELSE c.i + 1)
             /\ ~ran => c.pc = "end" /\ d.wins = c.wins
             /\ d.i <= Len(hooks)
             /\ OnlyHook(hooks[d.i])
             /\ bonus'[hooks[d.i]].got = <<d.wins>>
    /\ d.pc = "done"
          => /\ d.used # <<>>
             /\ IF ran THEN Len(hooks) = 0 ELSE c.pc = "end" /\ c.i = Len(hooks)
             /\ bonus' = bonus
    /\ d.pc = "hung" => ran /\ bonus' = bonus

C14_HooksInProtocolOrder ==
    [][\A k \in DOMAIN calls' :
          StepOf(k) => ProtocolStep(Before(k), calls'[k],
                                    eng[calls'[k].e].bonuses,
                                    Before(k).used = <<>> /\ calls'[k].used # <<>>)]_vars

\* a spin has resolved on an engine with two bonuses, each of which was
\* handed the spin's Win list
C14_Witness ==
    \E k \in DOMAIN calls :
        /\ calls[k].accepted
        /\ calls[k].pc = "done"
        /\ Len(eng[calls[k].e].bonuses) >= 2
        /\ \A j \in DOMAIN eng[calls[k].e].bonuses :
              bonus[eng[calls[k].e].bonuses[j]].got = <<calls[k].wins>>

(***************************************************************************)
(* C15: the engine stays Spinning until its spin-end hooks have run: while *)
(* an accepted spin() awaits an onSpinEnd hook the spinning flag is true.  *)
(***************************************************************************)
C15_SpinningThroughEndHooks ==
    \A k \in DOMAIN calls :
        (calls[k].accepted /\ calls[k].pc = "end") => eng[calls[k].e].spinning

(***************************************************************************)
(* C16: the Win list handed to each onSpinEnd hook of an accepted spin()   *)
(* is the list the spin() returns: every hook of the call is invoked with  *)
(* the list the body left, the list does not change between the hooks, and *)
(* the call resolves with it, in regular and in cascading style.           *)
(***************************************************************************)
\* a step that takes a call from c to d on an engine with these hooks
SameWins(c, d, hooks) ==
    /\ d.pc = "end" => bonus'[hooks[d.i]].got = <<d.wins>>
    /\ c.used # <<>> => d.wins = c.wins
    /\ d.pc = "done" => d.ret[1].wins = d.wins

C16_HooksGetReturnedWins ==
    [][\A k \in DOMAIN calls' :
          StepOf(k) => SameWins(Before(k), calls'[k], eng[calls'[k].e].bonuses)]_vars

\* a regular spin has resolved with Wins that its engine's bonus was handed
C16_Witness ==
    \E k \in DOMAIN calls :
        /\ calls[k].accepted
        /\ calls[k].pc = "done"
        /\ calls[k].style = "regular"
        /\ calls[k].ret[1].wins # <<>>
        /\ eng[calls[k].e].bonuses # <<>>
        /\ bonus[eng[calls[k].e].bonuses[1]].got = <<calls[k].ret[1].wins>>

(***************************************************************************)
(* C17: every accepted spin() runs to completion: its cascade loop comes   *)
(* to an evaluation without Wins, for any grid size and weight table, and  *)
(* never goes on for CascadeCap passes with Wins left.                     *)
(***************************************************************************)
C17_CascadeLoopEnds ==
    \A k \in DOMAIN calls : calls[k].pc # "hung"

(***************************************************************************)
(* C18: for a non-empty weight table and a threshold t in [0, total) the   *)
(* selector returns one symbol, a key of the table: the first in table     *)
(* order whose cumulative weight is >= t, and the last one if there is     *)
(* none.  Here t = u * total / 2^32 for the draw u in 0..2^32-1, so the    *)
(* cumulative weight cum is >= t exactly when u <= (cum * 2^32) div total. *)
(***************************************************************************)
\* cumulative weight of the first i entries
RECURSIVE Cumulative(_, _)
Cumulative(entries, i) ==
    IF i = 0 THEN 0 ELSE Cumulative(entries, i - 1) + entries[i][2]

\* u <= (cum * 2^32) div total, by long division in base 65536; hi and lo
\* are the halves of u
DrawAtMost(hi, lo, cum, total) ==
    \/ hi < (cum * 65536) \div total
    \/ /\ hi = (cum * 65536) \div total
       /\ lo <= (((cum * 65536) % total) * 65536) \div total

\* the entries whose cumulative weight reaches the threshold of draw x
Reaching(entries, x) ==
    {i \in DOMAIN entries :
        DrawAtMost(Hi16(x), Lo16(x), Cumulative(entries, i),
                   Cumulative(entries, Len(entries)))}

FirstReaching(entries, x) ==
    IF Reaching(entries, x) = {} THEN entries[Len(entries)][1]
    ELSE entries[CHOOSE i \in Reaching(entries, x) :
                    \A j \in Reaching(entries, x) : i <= j][1]

C18_PickIsFirstReaching ==
    last.op = "pickRandomSymbol"
        => /\ last.arg[2] = FirstReaching(Weights(eng[last.e], heap), last.arg[1])
           /\ HasKey(Weights(eng[last.e], heap), last.arg[2])
           /\ last.arg[2] # NULL

\* the selector has passed over an entry and returned one that is not the
\* last of its table
C18_Witness ==
    /\ last.op = "pickRandomSymbol"
    /\ Len(Weights(eng[last.e], heap)) >= 3
    /\ last.arg[2] = Weights(eng[last.e], heap)[2][1]

(***************************************************************************)
(* C19: setWeights merges.  After setWeights(w) every symbol named in w    *)
(* has the weight w gives it, every other symbol of the table keeps its    *)
(* weight, the symbols the table had stay where they were in iteration     *)
(* order, and the table has no symbol that neither the old table nor w     *)
(* names.                                                                  *)
(***************************************************************************)
Merged(old, w, new) ==
    /\ \A j \in DOMAIN w :
          HasKey(new, w[j][1]) /\ WeightOf(new, w[j][1]) = w[j][2]
    /\ \A i \in DOMAIN old :
          /\ i \in DOMAIN new
          /\ new[i][1] = old[i][1]
          /\ ~HasKey(w, old[i][1]) => new[i][2] = old[i][2]
    /\ \A i \in DOMAIN new :
          /\ HasKey(old, new[i][1]) \/ HasKey(w, new[i][1])
          /\ \A j \in DOMAIN new : new[j][1] = new[i][1] => j = i

C19_SetWeightsMerges ==
    [][\A e \in DOMAIN eng :
          Weights(eng'[e], heap') # Weights(eng[e], heap)
             => Merged(Weights(eng[e], heap), last'.arg, Weights(eng'[e], heap'))]_vars

\* setWeights has changed one weight of the table, kept another and added
\* a symbol, and a symbol has been picked from the new table
C19_Witness ==
    /\ last.op = "pickRandomSymbol"
    /\ last.prev = "setWeights"
    /\ \E i \in DOMAIN heap[2] :
          /\ Weights(eng[last.e], heap)[i] = heap[2][i]
          /\ \E j \in DOMAIN heap[2] :
                Weights(eng[last.e], heap)[j][2] # heap[2][j][2]
    /\ Len(Weights(eng[last.e], heap)) > Len(heap[2])

(***************************************************************************)
(* C20: setGrid, setSpinStyle and setWeights take effect for the next      *)
(* spin.  The body of an accepted spin() runs with the grid size, the spin *)
(* style and the weight table that were in force when spin() was called,   *)
(* and starts from the RNG state of that moment, whatever was called while *)
(* it awaited its spin-start hooks.                                        *)
(***************************************************************************)
C20_SettersWaitForNextSpin ==
    \A k \in DOMAIN calls :
        (calls[k].accepted /\ calls[k].used # <<>>) => calls[k].used[1] = calls[k].at

(***************************************************************************)
(* C21: registerBonus takes effect for the next spin: a bonus registered   *)
(* while a spin is in flight has none of its hooks invoked by that spin.   *)
(* In particular, when registerBonus is called while a spin awaits a hook, *)
(* the spin's next step does not invoke a hook of the bonus just           *)
(* registered, the last of the engine's list.                              *)
(***************************************************************************)
C21_NewBonusWaitsForNextSpin ==
    (/\ last.op = "spinResume"
     /\ last.prev = "registerBonus"
     /\ calls[last.call].pc \in {"start", "end"})
        => calls[last.call].i # Len(eng[last.e].bonuses)

(***************************************************************************)
(* C22: getSnapshot returns a deep copy of the symbols as a cols x rows    *)
(* column-major matrix.  The matrix it returns reads as the grid, cell for *)
(* cell, and the call changes nothing of the engine; a write into a        *)
(* returned matrix changes nothing of the engine; and what a returned      *)
(* matrix reads as changes only by a write into that very matrix, never by *)
(* a spin or a setGrid.                                                    *)
(***************************************************************************)
\* the symbols of the grid as a cols x rows matrix
SymbolsOf(en) ==
    [c \in 0..(en.config.grid.cols - 1) |->
        [r \in 0..(en.config.grid.rows - 1) |-> en.grid[c][r]]]

C22_SnapshotIsDeepCopy ==
    [][/\ last'.op = "getSnapshot"
          => /\ View(heap'[last'.arg], eng'[last'.e]) = SymbolsOf(eng[last'.e])
             /\ eng' = eng
       /\ last'.op = "writeSnapshot" => eng' = eng
       /\ \A s \in DOMAIN heap :
             (IsSnapshot(heap, s) /\ View(heap'[s], eng'[1]) # View(heap[s], eng[1]))
                => last'.op = "writeSnapshot" /\ last'.arg = s]_vars

\* the engine has spun after a snapshot was taken and written into: the
\* snapshot holds the written symbol and the grid does not
C22_Witness ==
    /\ last.op = "spin"
    /\ \E s \in DOMAIN heap :
          /\ IsSnapshot(heap, s)
          /\ View(heap[s], eng[1])[0][0] = WrittenSymbol
          /\ eng[1].grid[0][0] # WrittenSymbol
          /\ View(heap[s], eng[1]) # SymbolsOf(eng[1])

(***************************************************************************)
(* C24: a hook that throws aborts the spin.  A call never awaits a hook    *)
(* that threw: its promise rejects in the step that invoked the hook,      *)
(* without a result, that step invokes no further hook and changes no      *)
(* bonus, and the call never runs again, so that no later onSpinStart or   *)
(* onSpinEnd is invoked.  Up to a throw in the spin-start loop the call    *)
(* has drawn nothing and has left the grid and the RNG as they were when   *)
(* spin() was called.                                                      *)
(***************************************************************************)
AbortStep(c, d, hooks) ==
    /\ d.pc \in {"start", "end"} => ~Throws(bonus[hooks[d.i]], d.pc)
    /\ d.used = <<>>
          => /\ eng'[d.e].grid = eng[d.e].grid
             /\ eng'[d.e].rng = d.at.rng
             /\ last'.drawn = 0
    /\ d.pc = "thrown"
          => /\ d.ret = <<>>
             /\ d.i <= Len(hooks)
             /\ Throws(bonus[hooks[d.i]], IF d.used = <<>> THEN "start" ELSE "end")
             /\ bonus' = bonus

C24_FailingHookAborts ==
    [][/\ \A k \in DOMAIN calls : calls[k].pc = "thrown" => calls'[k] = calls[k]
       /\ \A k \in DOMAIN calls' :
             StepOf(k) => AbortStep(Before(k), calls'[k], eng[calls'[k].e].bonuses)]_vars

\* the second onSpinStart hook threw after the first had raised its
\* multiplier: the third bonus has seen no hook, the grid is full and the RNG
\* is where it was at the call
C24_Witness ==
    /\ Len(calls) = 1
    /\ calls[1].pc = "thrown"
    /\ calls[1].used = <<>>
    /\ calls[1].i = 2
    /\ bonus[eng[1].bonuses[1]].multiplier = 2
    /\ bonus[eng[1].bonuses[3]] = NewBonus("FreeSpins")
    /\ eng[1].rng = calls[1].at.rng
    /\ Full(eng[1].grid)

(***************************************************************************)
(* C28: the shipped bonuses only observe.  A step of spin() that invokes a *)
(* hook of a FreeSpinsBonus or MultiplierBonus changes, besides what       *)
(* spin() itself does in the step, only that bonus's own freeSpins and     *)
(* multiplier: no other bonus, no weight table, no engine field and not    *)
(* the Win list the call returns.                                          *)
(***************************************************************************)
\* a bonus without the fields its own hooks write
Foreign(b) == [b EXCEPT !.freeSpins = 0, !.multiplier = 1, !.got = <<>>]

ObserverStep(k, c, d, b, ran, body) ==
    /\ OnlyHook(b)
    /\ Foreign(bonus'[b]) = Foreign(bonus[b])
    /\ heap' = heap
    /\ \A j \in DOMAIN calls : j # k => calls'[j] = calls[j]
    /\ \A e \in DOMAIN eng : e # d.e => eng'[e] = eng[e]
    /\ IF ran
       THEN eng'[d.e] = body.en /\ d.wins = body.wins
       ELSE /\ eng'[d.e] = [eng[d.e] EXCEPT !.spinning = IF d.pc = "start" THEN TRUE ELSE @]
            /\ d.wins = c.wins

C28_ShippedBonusesObserve ==
    [][\A k \in DOMAIN calls' :
          (/\ StepOf(k)
           /\ calls'[k].pc \in {"start", "end"}
           /\ bonus[eng[calls'[k].e].bonuses[calls'[k].i]].kind \in ShippedKinds)
             => ObserverStep(k, Before(k), calls'[k],
                             eng[calls'[k].e].bonuses[calls'[k].i],
                             Before(k).used = <<>> /\ calls'[k].used # <<>>,
                             SpinBody(eng[calls'[k].e],
                                      Weights(eng[calls'[k].e], heap)))]_vars

\* a spin in regular style has resolved after the FreeSpinsBonus
\* awarded free spins and the MultiplierBonus raised its multiplier
C28_Witness ==
    \E k \in DOMAIN calls :
        /\ calls[k].pc = "done"
        /\ calls[k].accepted
        /\ calls[k].style = "regular"
        /\ \E i, j \in DOMAIN eng[1].bonuses :
              /\ bonus[eng[1].bonuses[i]].kind = "FreeSpins"
              /\ bonus[eng[1].bonuses[i]].freeSpins = 5
              /\ bonus[eng[1].bonuses[j]].kind = "Multiplier"
              /\ bonus[eng[1].bonuses[j]].multiplier = 2

(***************************************************************************)
(* C25: engines are independent.  A call on one of two engines built with  *)
(* the default configuration leaves every field of the other engine (its   *)
(* grid, config, RNG state, spinning flag, cascade counter and bonus list) *)
(* as it was, and so the entries of the other engine's weight table and    *)
(* the bonuses registered on it; the shared DEFAULT_WEIGHTS object keeps   *)
(* its entries.                                                            *)
(***************************************************************************)
C25_EnginesIndependent ==
    [][/\ \A e \in DOMAIN eng :
             last'.e # e
                => /\ eng'[e] = eng[e]
                   /\ Weights(eng'[e], heap') = Weights(eng[e], heap)
                   /\ \A j \in DOMAIN eng[e].bonuses :
                         bonus'[eng[e].bonuses[j]] = bonus[eng[e].bonuses[j]]
       /\ heap'[1] = DEFAULT_WEIGHTS]_vars

\* engine 1 has been given weights of its own, and engine 2, still on the
\* shared default table, has resolved a spin since
C25_Witness ==
    /\ last.op = "spin" /\ last.e = 2
    /\ calls[last.call].pc = "done" /\ calls[last.call].accepted
    /\ eng[1].config.symbolWeights # 1
    /\ eng[2].config.symbolWeights = 1
    /\ Weights(eng[1], heap) # Weights(eng[2], heap)
    /\ Weights(eng[2], heap) = DEFAULT_WEIGHTS

(***************************************************************************)
(* C26: setGrid refuses a size with cols <= 0 or rows <= 0, so that the    *)
(* engine never holds a grid with no column or no row.                     *)
(***************************************************************************)
C26_GridHasCells ==
    \A e \in DOMAIN eng :
        /\ eng[e].config.grid.cols > 0
        /\ eng[e].config.grid.rows > 0
        /\ DOMAIN eng[e].grid # {}

(***************************************************************************)
(* C27: setWeights refuses weights <= 0, so that every weight of an        *)
(* engine's table is positive.                                             *)
(***************************************************************************)
C27_WeightsPositive ==
    \A e \in DOMAIN eng :
        \A i \in DOMAIN Weights(eng[e], heap) : Weights(eng[e], heap)[i][2] > 0

(***************************************************************************)
(* C29: the cells of the grid and the RNG state change only in setGrid and *)
(* in the step of an accepted spin() that runs its body: setSpinStyle,     *)
(* setSpeed, setWeights, registerBonus, getSnapshot, a rejected spin() and *)
(* the hook steps of a spin leave them as they are.  setSpeed called       *)
(* without fallSpeed sets spinSpeed and leaves fallSpeed as it is.         *)
(***************************************************************************)
\* the step ran the body of an accepted spin() of engine e
BodyRan(e) ==
    /\ last'.op \in {"spin", "spinResume"}
    /\ last'.e = e
    /\ calls'[last'.call].accepted
    /\ calls'[last'.call].used # <<>>
    /\ Before(last'.call).used = <<>>

C29_GridChangesOnlyBySpinAndSetGrid ==
    [][/\ \A e \in DOMAIN eng :
             (eng'[e].grid # eng[e].grid \/ eng'[e].rng # eng[e].rng)
                => (last'.op = "setGrid" /\ last'.e = e) \/ BodyRan(e)
       /\ last'.op \in {"setSpinStyle", "setSpeed", "setWeights", "registerBonus",
                        "getSnapshot", "spinRejected"}
             => /\ eng'[last'.e].grid = eng[last'.e].grid
                /\ eng'[last'.e].rng = eng[last'.e].rng
       /\ last'.op = "setSpeed"
             => /\ eng'[last'.e].config.spinSpeed = last'.arg[1]
                /\ eng'[last'.e].config.fallSpeed =
                      (IF Len(last'.arg) = 1 THEN eng[last'.e].config.fallSpeed
                       ELSE last'.arg[2])]_vars

\* setSpeed(30) has been called on an engine that has resolved a spin: its
\* fallSpeed is still the default 28, and its grid is full
C29_Witness ==
    /\ last.op = "setSpeed"
    /\ last.arg = <<30>>
    /\ eng[last.e].config.spinSpeed = 30
    /\ eng[last.e].config.fallSpeed = 28
    /\ \E k \in DOMAIN calls :
          calls[k].e = last.e /\ calls[k].accepted /\ calls[k].pc = "done"
    /\ Full(eng[last.e].grid)

(***************************************************************************)
(* C30: one iteration of the cascade loop on a grid whose cells all hold a *)
(* symbol.  deleteWins empties the cells the Wins refer to and no other;   *)
(* after the iteration each column holds its surviving symbols at the      *)
(* bottom in their order and, above them, as many symbols of the weight    *)
(* table as cells were deleted in the column; the iteration made one RNG   *)
(* draw per deleted cell, the RNG state is that many steps on, and no cell *)
(* is empty.                                                               *)
(***************************************************************************)
\* the rows of column c the Wins refer to
Deleted(wins, c) ==
    {w.cells[j].r : <<w, j>> \in
        {wj \in UNION {{<<wins[i], j>> : j \in DOMAIN wins[i].cells} : i \in DOMAIN wins} :
            wj[1].cells[wj[2]].c = c}}

\* the number of rows above r that are not in d
Rank(d, r) == Cardinality({q \in 0..(r - 1) : q \notin d})

RECURSIVE Steps(_, _)
Steps(x, n) == IF n = 0 THEN x ELSE Steps(XorShift(x), n - 1)

RECURSIVE SumOver(_, _)
SumOver(f, dom) ==
    IF dom = {} THEN 0
    ELSE LET c == CHOOSE c \in dom : TRUE IN f[c] + SumOver(f, dom \ {c})

IterationOf(pre, new, wins, size, table) ==
    /\ \A c \in DOMAIN pre : \A r \in DOMAIN pre[c] :
          deleteWins(pre, wins)[c][r] =
              (IF r \in Deleted(wins, c) THEN NULL ELSE pre[c][r])
    /\ \A c \in DOMAIN pre :
          /\ \A r \in (DOMAIN pre[c]) \ Deleted(wins, c) :
                new[c][Cardinality(Deleted(wins, c)) + Rank(Deleted(wins, c), r)]
                    = pre[c][r]
          /\ \A r \in 0..(Cardinality(Deleted(wins, c)) - 1) :
                HasKey(table, new[c][r])
    /\ Full(new)

C30_CascadeIteration ==
    (last.op = "cascadePass" /\ Full(last.pre))
       => /\ IterationOf(last.pre, eng[last.e].grid, last.wins,
                         eng[last.e].config.grid, Weights(eng[last.e], heap))
          /\ last.drawn = SumOver([c \in DOMAIN last.pre |->
                                      Cardinality(Deleted(last.wins, c))],
                                  DOMAIN last.pre)
          /\ last.drawn > 0
          /\ eng[last.e].rng = Steps(last.arg[1], last.drawn)

\* an iteration on a full grid deleted a run of three below cells that
\* survived, and these have come down
C30_Witness ==
    /\ last.op = "cascadePass"
    /\ Full(last.pre)
    /\ last.drawn = 3
    /\ \E c \in DOMAIN last.pre :
          /\ Deleted(last.wins, c) = {1}
          /\ eng[last.e].grid[c][1] = last.pre[c][0]
          /\ eng[last.e].grid[c][1] # last.pre[c][1]

(***************************************************************************)
(* C31: the engine returns to Idle.  When every spin() call made on an     *)
(* engine has settled, resolved or rejected, its spinning flag is false.   *)
(***************************************************************************)
C31_IdleOnceSettled ==
    \A e \in DOMAIN eng :
        (\A k \in DOMAIN calls :
            calls[k].e = e => calls[k].pc \in {"done", "thrown"})
           => ~eng[e].spinning

(***************************************************************************)
(* C32: each spin-end hook observes the grid of its own spin.  Whenever a  *)
(* step of an accepted spin() invokes an onSpinEnd hook, the engine's      *)
(* snapshot is the grid on which that spin settled: the grid its body      *)
(* left, which the size, style, weight table and RNG state the body        *)
(* started from determine.                                                 *)
(***************************************************************************)
\* the grid the body of call c left; c.used[1] is what the body started from
SettledGrid(c) ==
    SpinBody([eng[c.e] EXCEPT !.config.grid = c.used[1].grid,
                              !.config.spinStyle = c.used[1].spinStyle,
                              !.rng = c.used[1].rng,
                              !.grid = makeEmptyGrid(c.used[1].grid)],
             c.used[1].weights).en.grid

C32_EndHookSeesOwnGrid ==
    [][\A k \in DOMAIN calls' :
          (StepOf(k) /\ calls'[k].pc = "end")
             => getSnapshot(eng'[calls'[k].e].grid)
                    = getSnapshot(SettledGrid(calls'[k]))]_vars

(***************************************************************************)
(* C33: the store's isSpinning flag tracks the engine.  isSpinning is true *)
(* whenever the engine's spinning flag is true, and false whenever no      *)
(* doSpin() call is pending.                                               *)
(***************************************************************************)
C33_IsSpinningTracksEngine ==
    /\ eng[1].spinning => store.isSpinning
    /\ (\A d \in DOMAIN store.pending : store.pending[d].pc # "await")
          => ~store.isSpinning

(***************************************************************************)
(* C34: the generator never degenerates.  Started from a non-zero seed,    *)
(* the state of an engine's RNG is non-zero after every step.              *)
(***************************************************************************)
C34_StateNeverZero ==
    \A e \in DOMAIN eng : eng[e].rng # 0

(***************************************************************************)
(* C35: a symbol whose weight is 0 is never drawn.  From a weight table    *)
(* with at least one positive weight pickRandomSymbol returns, for every   *)
(* draw, a symbol whose weight is positive.                                *)
(***************************************************************************)
SomePositive(table) == \E i \in DOMAIN table : table[i][2] > 0

C35_ZeroWeightNeverDrawn ==
    (last.op = "pickRandomSymbol" /\ SomePositive(Weights(eng[last.e], heap)))
       => WeightOf(Weights(eng[last.e], heap), last.arg[2]) > 0

(***************************************************************************)
(* C36: FreeSpinsBonus.freeSpins changes only in onSpinEnd.  It is 0 on a  *)
(* new bonus; a step in which a spin invokes the bonus's onSpinEnd adds    *)
(* exactly 5 when the engine's snapshot holds at least minScatters scatter *)
(* symbols, whatever the Win list, and every other step leaves it as it    *)
(* is; so it never decreases and is always a multiple of 5.                *)
(***************************************************************************)
\* the step invoked the onSpinEnd hook of bonus object b
EndHookOf(b) ==
    \E k \in DOMAIN calls' :
        /\ StepOf(k)
        /\ calls'[k].pc = "end"
        /\ eng[calls'[k].e].bonuses[calls'[k].i] = b

\* the engine bonus object b is registered on has minScatters scatters
Triggered(b) ==
    \E e \in DOMAIN eng' :
        /\ \E j \in DOMAIN eng'[e].bonuses : eng'[e].bonuses[j] = b
        /\ Scatters(getSnapshot(eng'[e].grid)) >= minScatters

C36_FreeSpinsOnlyInSpinEnd ==
    [][\A b \in DOMAIN bonus' :
          bonus'[b].kind = "FreeSpins"
             => /\ bonus'[b].freeSpins % 5 = 0
                /\ IF b \notin DOMAIN bonus THEN bonus'[b].freeSpins = 0
                   ELSE /\ bonus[b].freeSpins % 5 = 0
                        /\ bonus'[b].freeSpins >= bonus[b].freeSpins
                        /\ bonus'[b].freeSpins =
                              bonus[b].freeSpins
                                + (IF EndHookOf(b) /\ Triggered(b) THEN 5 ELSE 0)]_vars

\* a spin without a Win has resolved and the FreeSpinsBonus has awarded free
\* spins at its end
C36_Witness ==
    /\ Len(calls) = 1
    /\ calls[1].pc = "done"
    /\ calls[1].accepted
    /\ calls[1].ret[1].wins = <<>>
    /\ \E b \in DOMAIN bonus :
          /\ bonus[b].kind = "FreeSpins"
          /\ bonus[b].freeSpins = 5
          /\ bonus[b].got = << <<>> >>

====
